---- MODULE Spec2Model ----
(***************************************************************************)
(* A model of the record-and-replay debugger sts:                          *)
(*   - MCSFinder (src/sts/control_flow/mcs_finder.py): construction, the   *)
(*     reproducibility pass, the delta-debugging search _ddmin, the test   *)
(*     function _check_violation and replay;                               *)
(*   - Replayer (src/sts/control_flow.py): the interpolated time;          *)
(*   - the signal handler of src/simulator.py.                             *)
(* sts.event_dag (EventDag, split_list) and sts.util.precompute_cache are  *)
(* not part of the sources at hand; they follow the specification's data   *)
(* model and contracts.                                                    *)
(***************************************************************************)
EXTENDS Integers, Sequences, FiniteSets, TLC

\* ------------------------------------------------------------- bounds
\* The longest recorded input sequence.
MaxInputs == 3
\* The largest no_violation_verification_runs.
MaxRuns == 2
\* The most events of a replayed DAG.
MaxEvents == 3
\* The most get_interpolated_time() calls of one replay.
MaxCalls == 3
\* The most signals delivered to one run of the simulator.
MaxSignals == 2
\* The most rounds (steps) of a fuzz run.
MaxSteps == 2

\* ------------------------------------------------------------ universe
\* The entities (switches, links, controllers) that fail and recover: one is
\* enough for a failure, its recovery and inputs of other classes to interleave.
Entities == {"s1"}
\* The violation fingerprints an invariant check can return.
Fingerprints == {"F", "G"}
\* An input event of the trace: a failure or a recovery of an entity, or an
\* input of another class (traffic, migration, ...). Its label is its index
\* in the trace.
InputEvents ==
  {[cls |-> "Other", ent |-> "none"]}
    \cup [cls : {"Failure", "Recovery"}, ent : Entities]
\* The violation lists of a recorded InvariantViolation event and of a trial.
ViolationLists == {<<>>, <<"F">>, <<"G">>, <<"F", "G">>}
\* The internal events of a recorded trace, as far as the search reads them:
\* none, or a last InvariantViolation with its violations.
InternalEventLists ==
  {<<>>} \cup {<<[class |-> "InvariantViolation", violations |-> v]>> :
                 v \in {<<"F">>, <<"F", "G">>}}
\* sys.maxint
maxint == 2147483647
None == "None"
\* get_last_invariant_violation() of a DAG without an InvariantViolation.
NoEvent == [class |-> "None"]

Min(a, b) == IF a < b THEN a ELSE b
Max(a, b) == IF a > b THEN a ELSE b
Range(s) == {s[i] : i \in DOMAIN s}
\* Python's `x in list`.
In(x, s) == \E i \in DOMAIN s : s[i] = x
SeqsUpTo(S, n) == UNION {[1..k -> S] : k \in 0..n}

VARIABLES
  \* ---- the recorded trace and the oracle (the environment)
  trace,            \* the input events of the superlog, in record order
  internal_events,  \* its internal events
  oracleMode,       \* "required" | "deterministic" | "flaky"
  required,         \* "required": the labels whose presence reproduces the bug
  verdict,          \* "deterministic": tuple -> reproduces, fixed at first replay
  \* ---- MCSFinder
  pc,
  no_violation_verification_runs,
  check_reproducability,
  bug_signature,
  dag,              \* self.dag: the labels of its input events, in order
  cur,              \* _ddmin's dag
  split_ways,
  idx,              \* the loop index i of _ddmin
  cand,             \* new_dag, the candidate handed to _check_violation
  attempt,          \* the loop index i of _check_violation / simulate
  precompute_cache,
  total_inputs_pruned,
  violations,       \* the violation list the last trial returned
  bug_found,        \* what the last replay() returned
  subsequence_id,
  exit_code,        \* the exit status of the process, -1 while it runs
  \* ---- what happened so far
  tested,           \* tuple -> times handed to _check_violation by _ddmin
  replayed,         \* tuple -> times replayed for _ddmin
  \* ---- Replayer
  rpc,
  events,           \* dag.events: the recorded time of each event, in order
  interpolated_time,
  scheduled,        \* the indices of the events handed to the scheduler
  returned_times,   \* what the get_interpolated_time() calls returned, in order
  \* ---- simulator.py
  spc,
  control_flow,     \* the class of config.control_flow
  publish,          \* args.publish
  current_simulation,
  clean_ups,        \* the clean_up() calls so far
  published,        \* publish_results() was called
  exc,              \* the exception that is propagating, or None
  res,
  signals,          \* the signals the handler was run for, in order
  swallowed,        \* a SystemExit of the handler was caught on its way
  status,           \* the exit status of the process, or None
  \* ---- Fuzzer
  fpc,
  run,              \* the fuzz run: the first, or the second with the same seed
  random_seed,
  rng,              \* the state of self.random
  params,           \* the fuzzer parameters: name -> rate
  steps,
  check_interval,
  halt_on_violation,
  trace_interval,
  dataplane_trace,  \* the simulation has a dataplane trace
  violating_rounds, \* the rounds after which invariant_check finds violations
  logical_time,
  end_time,
  live_switches,    \* topology.live_switches; the others are failed
  live_links,       \* topology.live_links; the others are cut
  live_controllers, \* controller_manager.live_controllers; the others are down
  blocked,          \* topology.blocked_controller_connections
  pending_receives, \* god_scheduler.pending_receives()
  queued,           \* patch_panel.queued_dataplane_events, their number
  access_links,     \* host -> the switch of its access link
  input_log,        \* the input events logged, in order
  logger_closed,
  first_log,        \* the input log of the first run
  steps_done,       \* the steps of trigger_events run in this round, in order
  failed_in_round,  \* the entities crashed, severed or killed in this round
  recovered_in_round, \* the entities recovered, repaired or rebooted in it
  \* ---- MCSLogTracker
  min_size,         \* the size of the smallest DAG dumped so far
  count,            \* the number of the last intermcs_<count>_<label> directory
  intermcs,         \* the intermediate MCSes dumped, in order
  \* ---- RuntimeStats of the parent and of the child of a trial
  stpc,             \* whose turn it is: "idle", "parent", "child", "KeyError"
  stats_subsequence_id, \* self.subsequence_id of the parent MCSFinder
  ignore_runtime_stats, \* the argument of the replay() under way
  parent_stats,     \* self._runtime_stats of the parent
  child_stats,      \* self._runtime_stats of the child of this trial
  \* ---- _optimize_event_dag
  event_type_index, \* the number of event types gone through
  opt_log,          \* the pruned DAGs replayed, with the DAG before and the result
  \* ---- EfficientMCSFinder on the DAG the MCSFinder was given
  eff_pc,           \* "idle", "ready", "returned" or "ValueError"
  efficient_dag,    \* the DAG its _ddmin returned
  \* ---- the sync callback of a simulation and the speaker in front of it
  state_master,     \* "ReplaySyncCallback" or "RecordingSyncCallback", None before
  input_logger,     \* the input logger of a RecordingSyncCallback, or None
  get_interpolated_time, \* what the replayer's get_interpolated_time returns
  _pending_state_changes, \* a Counter, as the function of its stored keys
  listening,        \* whether _pass_through_handler listens to StateChange
  passed_through_events, \* the list of that name
  logged_events,    \* the events given to input_logger.log_input_event
  sent,             \* the responses the speaker has sent to the controller
  raised,           \* the exception the last call raised, None without one
  det_value,        \* the values get_deterministic_value calls returned
  observed_events,  \* what the last Simulation.unset_pass_through returned
  sync_calls,       \* the calls made so far, in order
  \* ---- the counters of the parent MCSFinder
  total_replays,    \* RuntimeStats.total_replays of the parent
  replay_dir_count, \* ReplayLogTracker.count
  iteration_size,   \* RuntimeStats.iteration_size of the parent
  \* ---- play_forward, the child process of one replay trial
  tpc,              \* "idle", "simulate", "check", "finally", "returned", "raised"
  simulation,       \* the local variable of that name: None or "Simulation"
  bootstraps,       \* the simulations the replayers have set up so far
  clean_up_calls,   \* the calls of simulation.clean_up() so far
  close_calls,      \* the calls of input_logger.close() so far
  trial_violations, \* the local variable violations
  pending_exception, \* the exception on its way out of play_forward, or None
  trials            \* the trials played so far

mcsVars ==
  <<trace, internal_events, oracleMode, required, verdict, pc,
    no_violation_verification_runs, check_reproducability, bug_signature,
    dag, cur, split_ways, idx, cand, attempt, precompute_cache,
    total_inputs_pruned, violations, bug_found, subsequence_id, exit_code,
    tested, replayed>>

replayVars == <<rpc, events, interpolated_time, scheduled, returned_times>>

signalVars ==
  <<spc, control_flow, publish, current_simulation, clean_ups, published, exc,
    res, signals, swallowed, status>>

fuzzVars ==
  <<fpc, run, random_seed, rng, params, steps, check_interval,
    halt_on_violation, trace_interval, dataplane_trace, violating_rounds,
    logical_time, end_time, live_switches, live_links, live_controllers,
    blocked, pending_receives, queued, access_links, input_log, logger_closed,
    first_log, steps_done, failed_in_round, recovered_in_round>>

trackVars == <<min_size, count, intermcs>>

statsVars ==
  <<stpc, stats_subsequence_id, ignore_runtime_stats, parent_stats,
    child_stats>>

optVars == <<event_type_index, opt_log>>

effVars == <<eff_pc, efficient_dag>>

syncVars ==
  <<state_master, input_logger, get_interpolated_time, _pending_state_changes,
    listening,
    passed_through_events, logged_events, sent, raised, det_value,
    observed_events, sync_calls>>

runVars == <<total_replays, replay_dir_count, iteration_size>>

trialVars ==
  <<tpc, simulation, bootstraps, clean_up_calls, close_calls,
    trial_violations, pending_exception, trials>>

vars ==
  <<mcsVars, replayVars, signalVars, fuzzVars, trackVars, statsVars, optVars,
    effVars, syncVars, runVars, trialVars>>

\* ------------------------------------------------------------ EventDag
\* The failure a recovery depends on: the last failure of the same entity
\* recorded before it; 0 when there is none.
MatchingFailure(j) ==
  LET fs == {i \in 1..(j - 1) :
               trace[i].cls = "Failure" /\ trace[i].ent = trace[j].ent}
  IN IF fs = {} THEN 0 ELSE CHOOSE i \in fs : \A k \in fs : k <= i

\* An input sequence with every input whose required predecessor is missing
\* dropped: a recovery stays only with its failure.
PruneDependencies(d) ==
  SelectSeq(d, LAMBDA x : trace[x].cls = "Recovery"
                            => MatchingFailure(x) \in Range(d))

mark_invalid_input_sequences(d) == PruneDependencies(d)

input_subset(d, S) ==
  PruneDependencies(SelectSeq(d, LAMBDA x : x \in Range(S)))

input_complement(d, S) ==
  PruneDependencies(SelectSeq(d, LAMBDA x : x \notin Range(S)))

\* The last InvariantViolation of the DAG, or None.
get_last_invariant_violation(evs) ==
  LET is == {i \in DOMAIN evs : evs[i].class = "InvariantViolation"}
  IN IF is = {} THEN NoEvent
     ELSE evs[CHOOSE i \in is : \A k \in is : k <= i]

\* len(dag): all events, inputs and internal ones.
DagLen(d) == Len(d) + Len(internal_events)

\* split_list(l, n): n contiguous chunks of roughly equal size (the first
\* len % n chunks hold one element more); one-element chunks when n > len.
split_list(l, n) ==
  IF n > Len(l) THEN [k \in 1..Len(l) |-> <<l[k]>>]
  ELSE LET interval == Len(l) \div n
           remainder == Len(l) % n
           start(k) == (k - 1) * interval + Min(k - 1, remainder) + 1
       IN [k \in 1..n |-> SubSeq(l, start(k), start(k + 1) - 1)]

\* PrecomputeCache: the set of input tuples presented so far.
already_done(cache, input_sequence) == input_sequence \in cache
update(cache, input_sequence) == cache \cup {input_sequence}

\* ----------------------------------------------------------- the oracle
\* replay(): the bug is found iff the violation list of the trial is not
\* empty and holds the bug signature.
\* (Mutant: any violation counts as the bug.)
BugFoundAnyViolation(vs, sig) == vs # <<>>
BugFound(vs, sig) == vs # <<>> /\ In(sig, vs)

\* Whether the trial of input sequence d may return violation list vs.
OracleReturns(d, vs) ==
  CASE oracleMode = "required" ->
         (BugFound(vs, bug_signature) <=> required \subseteq Range(d))
    [] oracleMode = "deterministic" ->
         (d \in DOMAIN verdict => (BugFound(vs, bug_signature) <=> verdict[d]))
    [] OTHER -> TRUE

Count(f, t) == IF t \in DOMAIN f THEN f[t] ELSE 0
Incr(f, t) == [x \in DOMAIN f \cup {t} |-> Count(f, x) + (IF x = t THEN 1 ELSE 0)]

\* --------------------------------------------------------------- Init
IdleMCS ==
  /\ pc = "new"
  /\ bug_signature = None
  /\ cur = <<>>
  /\ split_ways = 0
  /\ idx = 0
  /\ cand = <<>>
  /\ attempt = 0
  /\ precompute_cache = {}
  /\ total_inputs_pruned = 0
  /\ violations = <<>>
  /\ bug_found = FALSE
  /\ subsequence_id = 0
  /\ exit_code = -1
  /\ tested = <<>>
  /\ replayed = <<>>

\* No Replayer was constructed.
IdleReplay ==
  /\ rpc = "idle"
  /\ events = <<>>
  /\ interpolated_time = None
  /\ scheduled = <<>>
  /\ returned_times = <<>>

\* simulator.py is not run.
IdleSignal ==
  /\ spc = "idle"
  /\ control_flow = None
  /\ publish = FALSE
  /\ current_simulation = None
  /\ clean_ups = 0
  /\ published = FALSE
  /\ exc = None
  /\ res = None
  /\ signals = <<>>
  /\ swallowed = FALSE
  /\ status = None

\* MCSLogTracker.__init__
NewTracker ==
  /\ min_size = maxint
  /\ count = 0
  /\ intermcs = <<>>

\* No trial is under way.
IdleStats ==
  /\ stpc = "idle"
  /\ stats_subsequence_id = 0
  /\ ignore_runtime_stats = FALSE
  /\ parent_stats = <<>>
  /\ child_stats = <<>>

\* _optimize_event_dag is not run.
IdleOpt ==
  /\ event_type_index = 0
  /\ opt_log = <<>>

\* No EfficientMCSFinder is run.
IdleEfficient == eff_pc = "idle" /\ efficient_dag = <<>>

\* MCSFinder.__init__ and init_results: RuntimeStats(0) and
\* ReplayLogTracker(results_dir).
NewCounters ==
  /\ total_replays = 0
  /\ replay_dir_count = 0
  /\ iteration_size = <<>>

\* No replay trial is played.
IdleTrial ==
  /\ tpc = "idle"
  /\ simulation = None
  /\ bootstraps = 0
  /\ clean_up_calls = 0
  /\ close_calls = 0
  /\ trial_violations = <<>>
  /\ pending_exception = None
  /\ trials = 0

\* No simulation with a sync callback is set up.
IdleSync ==
  /\ state_master = None
  /\ input_logger = None
  /\ get_interpolated_time = None
  /\ _pending_state_changes = <<>>
  /\ listening = FALSE
  /\ passed_through_events = <<>>
  /\ logged_events = <<>>
  /\ sent = <<>>
  /\ raised = None
  /\ det_value = <<>>
  /\ observed_events = <<>>
  /\ sync_calls = <<>>

\* No Fuzzer was constructed.
IdleFuzz ==
  /\ fpc = "idle"
  /\ run = 0
  /\ random_seed = 0
  /\ rng = 0
  /\ params = <<>>
  /\ steps = 0
  /\ check_interval = 0
  /\ halt_on_violation = FALSE
  /\ trace_interval = 0
  /\ dataplane_trace = FALSE
  /\ violating_rounds = {}
  /\ logical_time = 0
  /\ end_time = 0
  /\ live_switches = {}
  /\ live_links = {}
  /\ live_controllers = {}
  /\ blocked = {}
  /\ pending_receives = {}
  /\ queued = 0
  /\ access_links = <<>>
  /\ input_log = <<>>
  /\ logger_closed = FALSE
  /\ first_log = <<>>
  /\ steps_done = <<>>
  /\ failed_in_round = {}
  /\ recovered_in_round = {}

\* An MCSFinder about to be constructed on a recorded trace.
NewMCS ==
  /\ trace \in SeqsUpTo(InputEvents, MaxInputs)
  /\ internal_events \in InternalEventLists
  /\ dag = [i \in 1..Len(trace) |-> i]
  /\ oracleMode \in {"required", "deterministic", "flaky"}
  /\ required \in IF oracleMode = "required"
                  THEN (SUBSET (1..Len(trace))) \ {{}}
                  ELSE {{}}
  /\ verdict \in IF oracleMode = "deterministic"
                 THEN {(<<>> :> b) : b \in BOOLEAN}
                 ELSE {<<>>}
  /\ no_violation_verification_runs \in 1..MaxRuns
  /\ check_reproducability \in BOOLEAN
  /\ IdleMCS

Init == NewMCS /\ IdleReplay /\ IdleSignal /\ IdleFuzz /\ NewTracker /\ IdleStats
  /\ IdleOpt /\ IdleEfficient /\ IdleSync /\ NewCounters /\ IdleTrial

\* ---------------------------------------------------------- MCSFinder
\* (Mutant: a DAG without an InvariantViolation is accepted.)
ConstructUnchecked ==
  /\ pc = "new"
  /\ UNCHANGED <<replayVars, signalVars, fuzzVars, trackVars, statsVars,
                 optVars, effVars, syncVars,
                 runVars, trialVars>>
  /\ LET last_invariant_violation == get_last_invariant_violation(internal_events)
     IN IF last_invariant_violation = NoEvent
        THEN UNCHANGED bug_signature
        ELSE \E violation_index \in 1..Len(last_invariant_violation.violations) :
               bug_signature' = last_invariant_violation.violations[violation_index]
  /\ pc' = "constructed"
  /\ UNCHANGED <<trace, internal_events, oracleMode, required, verdict,
                 no_violation_verification_runs, check_reproducability,
                 dag, cur, split_ways, idx, cand, attempt, precompute_cache,
                 total_inputs_pruned, violations, bug_found, subsequence_id,
                 exit_code, tested, replayed>>

\* MCSFinder.__init__: the bug signature is read off the last
\* InvariantViolation of the DAG; with several violations the user picks one.
Construct ==
  /\ pc = "new"
  /\ UNCHANGED <<replayVars, signalVars, fuzzVars, trackVars, statsVars,
                 optVars, effVars, syncVars,
                 runVars, trialVars>>
  /\ LET last_invariant_violation == get_last_invariant_violation(internal_events)
     IN IF last_invariant_violation = NoEvent
        THEN /\ pc' = "ValueError"
             /\ UNCHANGED bug_signature
        ELSE /\ \E violation_index \in 1..Len(last_invariant_violation.violations) :
                  bug_signature' = last_invariant_violation.violations[violation_index]
             /\ pc' = "constructed"
  /\ UNCHANGED <<trace, internal_events, oracleMode, required, verdict,
                 no_violation_verification_runs, check_reproducability,
                 dag, cur, split_ways, idx, cand, attempt, precompute_cache,
                 total_inputs_pruned, violations, bug_found, subsequence_id,
                 exit_code, tested, replayed>>

\* (Mutant: the trial is forked with the id of the trial before.)
ReplaySameId(d, vs) ==
  /\ OracleReturns(d, vs)
  /\ verdict' = IF oracleMode = "deterministic" /\ d \notin DOMAIN verdict
                THEN verdict @@ (d :> BugFound(vs, bug_signature))
                ELSE verdict
  /\ total_replays' = total_replays + 1
  /\ replay_dir_count' = replay_dir_count + 1
  /\ subsequence_id' = subsequence_id
  /\ violations' = vs
  /\ bug_found' = BugFound(vs, bug_signature)
\* replay(new_dag, ...): record_replay_stats, get_replay_logger_dir,
\* self.subsequence_id += 1, then one trial in a subprocess, its violation
\* list vs.
Replay(d, vs) ==
  /\ OracleReturns(d, vs)
  /\ verdict' = IF oracleMode = "deterministic" /\ d \notin DOMAIN verdict
                THEN verdict @@ (d :> BugFound(vs, bug_signature))
                ELSE verdict
  /\ total_replays' = total_replays + 1
  /\ replay_dir_count' = replay_dir_count + 1
  /\ subsequence_id' = subsequence_id + 1
  /\ violations' = vs
  /\ bug_found' = BugFound(vs, bug_signature)

\* simulate(): precompute_cache = PrecomputeCache(); _ddmin(self.dag, 2, ...)
StartPruning(d) ==
  /\ pc' = "ddmin"
  /\ cur' = d
  /\ split_ways' = 2
  /\ precompute_cache' = {}
  /\ total_inputs_pruned' = 0
  /\ idx' = 0

\* simulate(), up to the reproducibility pass.
Simulate ==
  /\ pc = "constructed"
  /\ UNCHANGED <<replayVars, signalVars, fuzzVars, trackVars, statsVars,
                 optVars, effVars, syncVars,
                 runVars, trialVars>>
  /\ dag' = mark_invalid_input_sequences(dag)
  /\ IF DagLen(dag') = 0
     THEN /\ pc' = "RuntimeError"
          /\ UNCHANGED <<cur, split_ways, precompute_cache,
                         total_inputs_pruned, idx>>
     ELSE IF check_reproducability
     THEN /\ pc' = "reproducibility"
          /\ UNCHANGED <<cur, split_ways, precompute_cache,
                         total_inputs_pruned, idx>>
     ELSE StartPruning(dag')
  /\ attempt' = 0
  /\ UNCHANGED <<trace, internal_events, oracleMode, required, verdict,
                 no_violation_verification_runs, check_reproducability,
                 bug_signature, cand, violations, bug_found, subsequence_id,
                 exit_code, tested, replayed>>

\* (Mutant: the pass goes on to pruning whatever it found.)
ReproducibilityNoExit ==
  /\ pc = "reproducibility"
  /\ UNCHANGED <<replayVars, signalVars, fuzzVars, trackVars, statsVars,
                 optVars, effVars, syncVars,
                 iteration_size, trialVars>>
  /\ \E vs \in ViolationLists : Replay(dag, vs)
  /\ IF bug_found' \/ attempt + 1 >= no_violation_verification_runs
     THEN /\ StartPruning(dag)
          /\ UNCHANGED <<attempt, exit_code>>
     ELSE /\ attempt' = attempt + 1
          /\ UNCHANGED <<pc, cur, split_ways, precompute_cache,
                         total_inputs_pruned, idx, exit_code>>
  /\ UNCHANGED <<trace, internal_events, oracleMode, required,
                 no_violation_verification_runs, check_reproducability,
                 bug_signature, dag, cand, tested, replayed>>

\* One run of the reproducibility pass: replay the unpruned DAG; exit 5
\* when none of the runs reproduces the violation.
Reproducibility ==
  /\ pc = "reproducibility"
  /\ UNCHANGED <<replayVars, signalVars, fuzzVars, trackVars, statsVars,
                 optVars, effVars, syncVars,
                 iteration_size, trialVars>>
  /\ \E vs \in ViolationLists : Replay(dag, vs)
  /\ IF bug_found'
     THEN /\ StartPruning(dag)
          /\ UNCHANGED <<attempt, exit_code>>
     ELSE IF attempt + 1 < no_violation_verification_runs
     THEN /\ attempt' = attempt + 1
          /\ UNCHANGED <<pc, cur, split_ways, precompute_cache,
                         total_inputs_pruned, idx, exit_code>>
     ELSE /\ pc' = "exited"
          /\ exit_code' = 5
          /\ UNCHANGED <<attempt, cur, split_ways, precompute_cache,
                         total_inputs_pruned, idx>>
  /\ UNCHANGED <<trace, internal_events, oracleMode, required,
                 no_violation_verification_runs, check_reproducability,
                 bug_signature, dag, cand, tested, replayed>>

\* -------------------------------------------------------------- _ddmin
\* subsets = split_list(dag.input_events, split_ways)
Subsets == split_list(cur, split_ways)

\* (Mutant: the chunk itself is tested, its dependencies not pruned.)
SubsetCandidateRaw(d, subset) == subset
\* new_dag = dag.input_subset(subset)
SubsetCandidate(d, subset) == input_subset(d, subset)
\* (Mutant: the complement is taken of self.dag, as before _ddmin took a dag.)
ComplementCandidateOfSelfDag(d, subset) == input_complement(dag, subset)
\* (Mutant: the second loop tests the subsets again.)
ComplementCandidateIsSubset(d, subset) == input_subset(d, subset)
\* new_dag = dag.input_complement(subset)
ComplementCandidate(d, subset) == input_complement(d, subset)

\* The split factor of the recursive call after a subset reproduced, after a
\* complement reproduced, and when the granularity is increased.
\* (Mutant: the split factor is kept after a subset.)
SubsetSplitWaysKept(n) == n
SubsetSplitWays(n) == 2
\* (Mutant: the split factor is kept after a complement.)
ComplementSplitWaysKept(n) == n
ComplementSplitWays(n) == Max(n - 1, 2)
\* (Mutant: the granularity is not increased.)
GranularitySplitWaysKept(d, n) == n
\* (Mutant: the doubled split factor is not capped.)
GranularitySplitWaysUncapped(d, n) == n * 2
GranularitySplitWays(d, n) == Min(Len(d), n * 2)

\* RuntimeStats.record_iteration_size on a RuntimeStats made with the given
\* subsequence_id: self.iteration_size[self.subsequence_id] = iteration_size
record_iteration_size(d, own_id, size) ==
  [k \in DOMAIN d \cup {own_id} |->
     IF k = own_id THEN size ELSE d[k]]
\* _track_iteration_size(total_inputs_pruned), called by _ddmin and by
\* simulate in the parent, whose self._runtime_stats is the
\* RuntimeStats(self.subsequence_id) that __init__ made when
\* self.subsequence_id was 0; self.dag is the DAG before pruning.
_track_iteration_size(pruned) ==
  iteration_size' = record_iteration_size(iteration_size, 0, Len(dag) - pruned)

\* (Mutant: simulate() drops the DAG _ddmin returned.)
ReturnUnpruned ==
  /\ _track_iteration_size(total_inputs_pruned)
  /\ pc' = "ddmin_done"
  /\ dag' = dag
\* return (dag, total_inputs_pruned), back in simulate(): self.dag = dag
Return ==
  /\ _track_iteration_size(total_inputs_pruned)
  /\ pc' = "ddmin_done"
  /\ dag' = cur

\* Entry of _ddmin(dag, split_ways, ...).
DdminEnter ==
  /\ pc = "ddmin"
  /\ UNCHANGED <<replayVars, signalVars, fuzzVars, trackVars, statsVars,
                 optVars, effVars, syncVars,
                 total_replays, replay_dir_count, trialVars>>
  /\ IF split_ways > Len(cur)
     THEN Return
     ELSE /\ pc' = "subsets"
          /\ UNCHANGED <<dag, iteration_size>>
  /\ idx' = 0
  /\ UNCHANGED <<trace, internal_events, oracleMode, required, verdict,
                 no_violation_verification_runs, check_reproducability,
                 bug_signature, cur, split_ways, cand, attempt,
                 precompute_cache, total_inputs_pruned, violations, bug_found,
                 subsequence_id, exit_code, tested, replayed>>

\* What a loop does with a candidate that is empty after pruning: the
\* subset loop logs and goes on; the complement loop calls self.log with a
\* second argument, which log(self, s) does not take.
SkipEmpty(check_pc) ==
  IF check_pc = "check_complement"
  THEN /\ pc' = "TypeError"
       /\ UNCHANGED <<idx, cand, attempt, tested, iteration_size>>
  ELSE /\ idx' = idx + 1
       /\ UNCHANGED <<pc, cand, attempt, tested, iteration_size>>

\* (Mutant: the precompute cache is never consulted.)
ExamineUncached(new_dag, check_pc) ==
  /\ precompute_cache' = update(precompute_cache, new_dag)
  /\ IF new_dag = <<>>
     THEN SkipEmpty(check_pc)
     ELSE /\ pc' = check_pc
          /\ cand' = new_dag
          /\ attempt' = 0
          /\ tested' = Incr(tested, new_dag)
          /\ _track_iteration_size(total_inputs_pruned)
          /\ UNCHANGED idx
\* (Mutant: an empty candidate is tested like any other.)
ExamineEmptyTested(new_dag, check_pc) ==
  IF already_done(precompute_cache, new_dag)
  THEN /\ idx' = idx + 1
       /\ UNCHANGED <<pc, cand, attempt, precompute_cache, tested,
                       iteration_size>>
  ELSE /\ precompute_cache' = update(precompute_cache, new_dag)
       /\ pc' = check_pc
       /\ cand' = new_dag
       /\ attempt' = 0
       /\ tested' = Incr(tested, new_dag)
       /\ _track_iteration_size(total_inputs_pruned)
       /\ UNCHANGED idx

\* One iteration of a candidate loop up to _check_violation: the candidate is
\* skipped when its input tuple is cached, is dealt with as empty when it is
\* empty, and is handed to _check_violation otherwise.
Examine(new_dag, check_pc) ==
  LET input_sequence == new_dag
  IN IF already_done(precompute_cache, input_sequence)
     THEN /\ idx' = idx + 1
          /\ UNCHANGED <<pc, cand, attempt, precompute_cache, tested,
                       iteration_size>>
     ELSE /\ precompute_cache' = update(precompute_cache, input_sequence)
          /\ IF input_sequence = <<>>
             THEN SkipEmpty(check_pc)
             ELSE /\ pc' = check_pc
                  /\ cand' = new_dag
                  /\ attempt' = 0
                  /\ tested' = Incr(tested, input_sequence)
                  /\ _track_iteration_size(total_inputs_pruned)
                  /\ UNCHANGED idx

\* for i, subset in enumerate(subsets): ...
SubsetStep ==
  /\ pc = "subsets"
  /\ UNCHANGED <<replayVars, signalVars, fuzzVars, trackVars, statsVars,
                 optVars, effVars, syncVars,
                 total_replays, replay_dir_count, trialVars>>
  /\ idx < Len(Subsets)
  /\ Examine(SubsetCandidate(cur, Subsets[idx + 1]), "check_subset")
  /\ UNCHANGED <<trace, internal_events, oracleMode, required, verdict,
                 no_violation_verification_runs, check_reproducability,
                 bug_signature, dag, cur, split_ways, total_inputs_pruned,
                 violations, bug_found, subsequence_id, exit_code, replayed>>

\* (Mutant: the complements are taken up before the subset loop is over.)
NoSubsetsEarly ==
  /\ pc = "subsets"
  /\ UNCHANGED <<replayVars, signalVars, fuzzVars, trackVars, statsVars,
                 optVars, effVars, syncVars,
                 runVars, trialVars>>
  /\ idx <= Len(Subsets)
  /\ pc' = "complements"
  /\ idx' = 0
  /\ UNCHANGED <<trace, internal_events, oracleMode, required, verdict,
                 no_violation_verification_runs, check_reproducability,
                 bug_signature, dag, cur, split_ways, cand, attempt,
                 precompute_cache, total_inputs_pruned, violations, bug_found,
                 subsequence_id, exit_code, tested, replayed>>
\* "No subsets with violations. Checking complements"
NoSubsets ==
  /\ pc = "subsets"
  /\ UNCHANGED <<replayVars, signalVars, fuzzVars, trackVars, statsVars,
                 optVars, effVars, syncVars,
                 runVars, trialVars>>
  /\ idx = Len(Subsets)
  /\ pc' = "complements"
  /\ idx' = 0
  /\ UNCHANGED <<trace, internal_events, oracleMode, required, verdict,
                 no_violation_verification_runs, check_reproducability,
                 bug_signature, dag, cur, split_ways, cand, attempt,
                 precompute_cache, total_inputs_pruned, violations, bug_found,
                 subsequence_id, exit_code, tested, replayed>>

\* for i, subset in enumerate(subsets): ... dag.input_complement(subset)
ComplementStep ==
  /\ pc = "complements"
  /\ UNCHANGED <<replayVars, signalVars, fuzzVars, trackVars, statsVars,
                 optVars, effVars, syncVars,
                 total_replays, replay_dir_count, trialVars>>
  /\ idx < Len(Subsets)
  /\ Examine(ComplementCandidate(cur, Subsets[idx + 1]), "check_complement")
  /\ UNCHANGED <<trace, internal_events, oracleMode, required, verdict,
                 no_violation_verification_runs, check_reproducability,
                 bug_signature, dag, cur, split_ways, total_inputs_pruned,
                 violations, bug_found, subsequence_id, exit_code, replayed>>

\* (Mutant: the directory counter is not advanced.)
maybe_dump_same_directory(new_dag) ==
  IF DagLen(new_dag) < min_size
  THEN /\ min_size' = DagLen(new_dag)
       /\ count' = count
       /\ intermcs' = Append(intermcs, [count |-> count', dag |-> new_dag,
                                        size |-> DagLen(new_dag)])
  ELSE UNCHANGED trackVars
\* MCSLogTracker.maybe_dump_intermediate_mcs(dag, ...): the DAG and the
\* runtime stats go to intermcs_<count>_<label> when the DAG is smaller than
\* every one dumped before.
maybe_dump_intermediate_mcs(new_dag) ==
  IF DagLen(new_dag) < min_size
  THEN /\ min_size' = DagLen(new_dag)
       /\ count' = count + 1
       /\ intermcs' = Append(intermcs, [count |-> count', dag |-> new_dag,
                                        size |-> DagLen(new_dag)])
  ELSE UNCHANGED trackVars

\* (Mutant: _check_violation gives up after its first replay.)
CheckViolationOnce(check_pc, loop_pc, next_split_ways) ==
  /\ pc = check_pc
  /\ UNCHANGED <<replayVars, signalVars, fuzzVars, statsVars, optVars, effVars, syncVars,
                 iteration_size, trialVars>>
  /\ \E vs \in ViolationLists : Replay(cand, vs)
  /\ replayed' = Incr(replayed, cand)
  /\ IF bug_found'
     THEN /\ maybe_dump_intermediate_mcs(cand)
          /\ total_inputs_pruned' = total_inputs_pruned + (Len(cur) - Len(cand))
          /\ cur' = cand
          /\ split_ways' = next_split_ways
          /\ pc' = "ddmin"
          /\ UNCHANGED <<idx, attempt>>
     ELSE /\ pc' = loop_pc
          /\ idx' = idx + 1
          /\ UNCHANGED <<cur, split_ways, attempt, total_inputs_pruned>>
          /\ UNCHANGED trackVars
  /\ UNCHANGED <<trace, internal_events, oracleMode, required,
                 no_violation_verification_runs, check_reproducability,
                 bug_signature, dag, cand, precompute_cache, exit_code, tested>>
\* (Mutant: the total is overwritten by the inputs pruned last.)
CheckViolationLastPruned(check_pc, loop_pc, next_split_ways) ==
  /\ pc = check_pc
  /\ UNCHANGED <<replayVars, signalVars, fuzzVars, statsVars, optVars, effVars, syncVars,
                 iteration_size, trialVars>>
  /\ \E vs \in ViolationLists : Replay(cand, vs)
  /\ replayed' = Incr(replayed, cand)
  /\ IF bug_found'
     THEN /\ maybe_dump_intermediate_mcs(cand)
          /\ total_inputs_pruned' = Len(cur) - Len(cand)
          /\ cur' = cand
          /\ split_ways' = next_split_ways
          /\ pc' = "ddmin"
          /\ UNCHANGED <<idx, attempt>>
     ELSE IF attempt + 1 < no_violation_verification_runs
     THEN /\ attempt' = attempt + 1
          /\ UNCHANGED <<pc, cur, split_ways, idx, total_inputs_pruned>>
          /\ UNCHANGED trackVars
     ELSE /\ pc' = loop_pc
          /\ idx' = idx + 1
          /\ UNCHANGED <<cur, split_ways, attempt, total_inputs_pruned>>
          /\ UNCHANGED trackVars
  /\ UNCHANGED <<trace, internal_events, oracleMode, required,
                 no_violation_verification_runs, check_reproducability,
                 bug_signature, dag, cand, precompute_cache, exit_code, tested>>
\* One run of _check_violation(new_dag, ...) and, at its end, what _ddmin
\* does with the result: recurse on the candidate when the bug was found,
\* go on with the next candidate when no run found it.
CheckViolation(check_pc, loop_pc, next_split_ways) ==
  /\ pc = check_pc
  /\ UNCHANGED <<replayVars, signalVars, fuzzVars, statsVars, optVars, effVars, syncVars,
                 iteration_size, trialVars>>
  /\ \E vs \in ViolationLists : Replay(cand, vs)
  /\ replayed' = Incr(replayed, cand)
  /\ IF bug_found'
     THEN /\ maybe_dump_intermediate_mcs(cand)
          /\ total_inputs_pruned' = total_inputs_pruned + (Len(cur) - Len(cand))
          /\ cur' = cand
          /\ split_ways' = next_split_ways
          /\ pc' = "ddmin"
          /\ UNCHANGED <<idx, attempt>>
     ELSE IF attempt + 1 < no_violation_verification_runs
     THEN /\ attempt' = attempt + 1
          /\ UNCHANGED <<pc, cur, split_ways, idx, total_inputs_pruned>>
          /\ UNCHANGED trackVars
     ELSE /\ pc' = loop_pc
          /\ idx' = idx + 1
          /\ UNCHANGED <<cur, split_ways, attempt, total_inputs_pruned>>
          /\ UNCHANGED trackVars
  /\ UNCHANGED <<trace, internal_events, oracleMode, required,
                 no_violation_verification_runs, check_reproducability,
                 bug_signature, dag, cand, precompute_cache, exit_code, tested>>

CheckSubset ==
  CheckViolation("check_subset", "subsets", SubsetSplitWays(split_ways))

CheckComplement ==
  CheckViolation("check_complement", "complements",
                 ComplementSplitWays(split_ways))

\* "No complements with violations.": increase the granularity or return.
NoComplements ==
  /\ pc = "complements"
  /\ UNCHANGED <<replayVars, signalVars, fuzzVars, trackVars, statsVars,
                 optVars, effVars, syncVars,
                 total_replays, replay_dir_count, trialVars>>
  /\ idx = Len(Subsets)
  /\ IF split_ways < Len(cur)
     THEN /\ split_ways' = GranularitySplitWays(cur, split_ways)
          /\ pc' = "ddmin"
          /\ UNCHANGED <<dag, iteration_size>>
     ELSE /\ Return
          /\ UNCHANGED split_ways
  /\ UNCHANGED <<trace, internal_events, oracleMode, required, verdict,
                 no_violation_verification_runs, check_reproducability,
                 bug_signature, cur, idx, cand, attempt, precompute_cache,
                 total_inputs_pruned, violations, bug_found, subsequence_id,
                 exit_code, tested, replayed>>

\* simulate() after _ddmin: the final replay of the MCS; when it does not
\* reproduce, one more replay without the timed out events; then ExitCode(0).
FinalReplay ==
  /\ pc \in {"ddmin_done", "final_no_timeouts"}
  /\ UNCHANGED <<replayVars, signalVars, fuzzVars, trackVars, statsVars,
                 optVars, effVars, syncVars,
                 iteration_size, trialVars>>
  /\ \E vs \in ViolationLists : Replay(dag, vs)
  /\ IF bug_found' \/ pc = "final_no_timeouts"
     THEN /\ pc' = "exited"
          /\ exit_code' = 0
     ELSE /\ pc' = "final_no_timeouts"
          /\ UNCHANGED exit_code
  /\ UNCHANGED <<trace, internal_events, oracleMode, required,
                 no_violation_verification_runs, check_reproducability,
                 bug_signature, dag, cur, split_ways, idx, cand, attempt,
                 precompute_cache, total_inputs_pruned, tested, replayed>>

Next ==
  \/ Construct
  \/ Simulate
  \/ Reproducibility
  \/ DdminEnter
  \/ SubsetStep
  \/ NoSubsets
  \/ CheckSubset
  \/ ComplementStep
  \/ NoComplements
  \/ CheckComplement
  \/ FinalReplay

Spec == Init /\ [][Next]_vars

\* ------------------------------------------------------------ Replayer
\* No MCSFinder is in play.
NoMCS ==
  /\ trace = <<>>
  /\ internal_events = <<>>
  /\ dag = <<>>
  /\ oracleMode = None
  /\ required = {}
  /\ verdict = <<>>
  /\ no_violation_verification_runs = 1
  /\ check_reproducability = TRUE
  /\ pc = "idle"
  /\ bug_signature = None
  /\ cur = <<>>
  /\ split_ways = 0
  /\ idx = 0
  /\ cand = <<>>
  /\ attempt = 0
  /\ precompute_cache = {}
  /\ total_inputs_pruned = 0
  /\ violations = <<>>
  /\ bug_found = FALSE
  /\ subsequence_id = 0
  /\ exit_code = -1
  /\ tested = <<>>
  /\ replayed = <<>>

\* Replayer.time_epsilon_microseconds
time_epsilon_microseconds == 500
\* The recorded times: SyncTime(seconds, microSeconds), with microseconds
\* at zero, below the epsilon, and above it.
SyncTimes == [seconds : {0, 1}, microSeconds : {0, 300, 800}]
SyncTime(seconds, microSeconds) ==
  [seconds |-> seconds, microSeconds |-> microSeconds]

\* (Mutant: the distance to the epsilon instead of the clamped difference.)
just_before_micro_abs(next_time) ==
  LET d == next_time.microSeconds - time_epsilon_microseconds
  IN IF d < 0 THEN 0 - d ELSE d
\* just_before_micro = max(0, next_time.microSeconds - time_epsilon_microseconds)
just_before_micro(next_time) ==
  Max(0, next_time.microSeconds - time_epsilon_microseconds)

\* compute_interpolated_time(current_event): the value of interpolated_time.
compute_interpolated_time(current_event) ==
  LET next_time == current_event.time
  IN SyncTime(next_time.seconds, just_before_micro(next_time))

\* A Replayer about to be constructed on a DAG.
NewReplayer ==
  /\ rpc = "new"
  /\ events \in SeqsUpTo([time : SyncTimes], MaxEvents)
  /\ interpolated_time = None
  /\ scheduled = <<>>
  /\ returned_times = <<>>

\* Replayer.__init__: the interpolated time is set to just before the first
\* event; dag.events[0] of a DAG without events raises IndexError.
ReplayerConstruct ==
  /\ rpc = "new"
  /\ IF events = <<>>
     THEN /\ rpc' = "IndexError"
          /\ UNCHANGED interpolated_time
     ELSE /\ rpc' = "constructed"
          /\ interpolated_time' = compute_interpolated_time(events[1])
  /\ UNCHANGED <<events, scheduled, returned_times, mcsVars, signalVars,
                 fuzzVars, trackVars, statsVars, optVars, effVars, syncVars, runVars,
                 trialVars>>

\* run_simulation_forward, up to the loop: bootstrap, the event scheduler.
Bootstrap ==
  /\ rpc = "constructed"
  /\ rpc' = "loop"
  /\ UNCHANGED <<events, interpolated_time, scheduled, returned_times,
                 mcsVars, signalVars, fuzzVars, trackVars, statsVars, optVars, effVars, syncVars, runVars,
                 trialVars>>

\* (Mutant: the loop goes through dag.events from the end.)
NextEventReversed == Len(events) - Len(scheduled)
\* for event in dag.events: the index of the event the loop is at.
NextEvent == Len(scheduled) + 1

\* for event in dag.events: self.compute_interpolated_time(event)
LoopCompute ==
  /\ rpc = "loop"
  /\ Len(scheduled) < Len(events)
  /\ interpolated_time' = compute_interpolated_time(events[NextEvent])
  /\ rpc' = "schedule"
  /\ UNCHANGED <<events, scheduled, returned_times, mcsVars, signalVars,
                 fuzzVars, trackVars, statsVars, optVars, effVars, syncVars, runVars,
                 trialVars>>

\* event_scheduler.schedule(event); self.increment_round()
Schedule ==
  /\ rpc = "schedule"
  /\ scheduled' = Append(scheduled, NextEvent)
  /\ rpc' = "loop"
  /\ UNCHANGED <<events, interpolated_time, returned_times, mcsVars,
                 signalVars, fuzzVars, trackVars, statsVars, optVars, effVars, syncVars, runVars,
                 trialVars>>

\* The loop has gone through dag.events.
LoopEnd ==
  /\ rpc = "loop"
  /\ Len(scheduled) = Len(events)
  /\ rpc' = "done"
  /\ UNCHANGED <<events, interpolated_time, scheduled, returned_times,
                 mcsVars, signalVars, fuzzVars, trackVars, statsVars, optVars, effVars, syncVars, runVars,
                 trialVars>>

\* get_interpolated_time(): a controller asks for the time, at any moment of
\* the replay.
GetInterpolatedTime ==
  /\ rpc \in {"constructed", "loop", "schedule", "done"}
  /\ Len(returned_times) < MaxCalls
  /\ returned_times' = Append(returned_times, interpolated_time)
  /\ UNCHANGED <<rpc, events, interpolated_time, scheduled, mcsVars,
                 signalVars, fuzzVars, trackVars, statsVars, optVars, effVars, syncVars, runVars,
                 trialVars>>

NextReplay ==
  \/ ReplayerConstruct
  \/ Bootstrap
  \/ LoopCompute
  \/ Schedule
  \/ LoopEnd
  \/ GetInterpolatedTime

InitReplay == NoMCS /\ NewReplayer /\ IdleSignal /\ IdleFuzz /\ NewTracker /\ IdleStats
  /\ IdleOpt /\ IdleEfficient /\ IdleSync /\ NewCounters /\ IdleTrial

SpecReplay == InitReplay /\ [][NextReplay]_vars

\* -------------------------------------------------------- simulator.py
Signals == {"SIGINT", "SIGTERM", "SIGQUIT"}
ControlFlows == {"Fuzzer", "Replayer", "MCSFinder"}

\* simulator.py with the handlers set (line 138), about to start the
\* simulation; no simulation was bootstrapped yet.
HandlersSet ==
  /\ spc = "registered"
  /\ control_flow \in ControlFlows
  /\ publish \in BOOLEAN
  /\ current_simulation = None
  /\ clean_ups = 0
  /\ published = FALSE
  /\ exc = None
  /\ res = None
  /\ signals = <<>>
  /\ swallowed = FALSE
  /\ status = None

\* simulation.clean_up() when there is a current simulation.
CleanUpCurrent ==
  clean_ups' = IF current_simulation # None THEN clean_ups + 1 ELSE clean_ups

\* try: simulator.init_results(config.results_dir)
InitResults ==
  /\ spc = "registered"
  /\ spc' = "simulate"
  /\ UNCHANGED <<control_flow, publish, current_simulation, clean_ups,
                 published, exc, res, signals, swallowed, status,
                 mcsVars, replayVars, fuzzVars, trackVars, statsVars, optVars, effVars, syncVars, runVars,
                 trialVars>>

\* SimulationConfig.bootstrap: self.current_simulation = simulation
SimulationBootstrap ==
  /\ spc = "simulate"
  /\ current_simulation = None
  /\ current_simulation' = "simulation"
  /\ UNCHANGED <<spc, control_flow, publish, clean_ups, published, exc, res,
                 signals, swallowed, status, mcsVars, replayVars, fuzzVars, trackVars, statsVars, optVars, effVars, syncVars, runVars,
                 trialVars>>

\* RuntimeStats.merge_client_dict, called by MCSFinder.replay after a trial:
\* control is inside `try: field = int(field)`, whose `except:` catches
\* every exception.
MergeClientDictTry ==
  /\ spc = "simulate"
  /\ control_flow = "MCSFinder"
  /\ spc' = "merge_try"
  /\ UNCHANGED <<control_flow, publish, current_simulation, clean_ups,
                 published, exc, res, signals, swallowed, status,
                 mcsVars, replayVars, fuzzVars, trackVars, statsVars, optVars, effVars, syncVars, runVars,
                 trialVars>>

\* merge_client_dict goes on after its try statement and returns.
MergeClientDictDone ==
  /\ spc = "merge_try"
  /\ spc' = "simulate"
  /\ UNCHANGED <<control_flow, publish, current_simulation, clean_ups,
                 published, exc, res, signals, swallowed, status,
                 mcsVars, replayVars, fuzzVars, trackVars, statsVars, optVars, effVars, syncVars, runVars,
                 trialVars>>

\* res = simulator.simulate(); if type(res) != int: res = 0
SimulateReturns ==
  /\ spc = "simulate"
  /\ res' = 0
  /\ spc' = "finally"
  /\ UNCHANGED <<control_flow, publish, current_simulation, clean_ups,
                 published, exc, signals, swallowed, status,
                 mcsVars, replayVars, fuzzVars, trackVars, statsVars, optVars, effVars, syncVars, runVars,
                 trialVars>>

\* MCSFinder.simulate: sys.exit(5) of the reproducibility pass.
SimulateExits ==
  /\ spc = "simulate"
  /\ control_flow = "MCSFinder"
  /\ exc' = "SystemExit(5)"
  /\ spc' = "finally"
  /\ UNCHANGED <<control_flow, publish, current_simulation, clean_ups,
                 published, res, signals, swallowed, status,
                 mcsVars, replayVars, fuzzVars, trackVars, statsVars, optVars, effVars, syncVars, runVars,
                 trialVars>>

\* The exit status of a SystemExit that reaches the top level.
ExitStatus(e) == IF e = "SystemExit(13)" THEN 13 ELSE 5

\* finally: clean up the current simulation; publish the results; then the
\* exception that entered the finally clause goes on to the top level.
Finally ==
  /\ spc = "finally"
  /\ CleanUpCurrent
  /\ published' = publish
  /\ IF exc # None
     THEN /\ spc' = "exited"
          /\ status' = ExitStatus(exc)
     ELSE /\ spc' = "sys_exit"
          /\ UNCHANGED status
  /\ UNCHANGED <<control_flow, publish, current_simulation, exc, res,
                 signals, swallowed, mcsVars, replayVars, fuzzVars, trackVars, statsVars, optVars, effVars, syncVars, runVars,
                 trialVars>>

\* sys.exit(res)
SysExit ==
  /\ spc = "sys_exit"
  /\ spc' = "exited"
  /\ status' = res
  /\ UNCHANGED <<control_flow, publish, current_simulation, clean_ups,
                 published, exc, res, signals, swallowed, mcsVars, replayVars, fuzzVars, trackVars, statsVars, optVars, effVars, syncVars, runVars,
                 trialVars>>

\* sys.exit(13) of handle_int.
HandlerExit == "SystemExit(13)"

\* handle_int(signal, frame): clean up the current simulation, sys.exit(13).
\* The SystemExit is raised where the main thread is: inside the try
\* statement of merge_client_dict it is caught and passed over; inside the
\* try of simulator.py it goes through the finally clause; elsewhere it ends
\* the process.
HandleInt(signum) ==
  /\ spc \in {"registered", "simulate", "merge_try", "finally", "sys_exit"}
  /\ Len(signals) < MaxSignals
  /\ signals' = Append(signals, signum)
  /\ CleanUpCurrent
  /\ CASE spc = "merge_try" ->
            /\ swallowed' = TRUE
            /\ spc' = "simulate"
            /\ UNCHANGED <<exc, status>>
       [] spc = "simulate" ->
            /\ exc' = HandlerExit
            /\ spc' = "finally"
            /\ UNCHANGED <<swallowed, status>>
       [] OTHER ->
            /\ exc' = HandlerExit
            /\ spc' = "exited"
            /\ status' = ExitStatus(HandlerExit)
            /\ UNCHANGED swallowed
  /\ UNCHANGED <<control_flow, publish, current_simulation, published, res,
                 mcsVars, replayVars, fuzzVars, trackVars, statsVars, optVars, effVars, syncVars, runVars,
                 trialVars>>

Signal == \E signum \in Signals : HandleInt(signum)

NextSignal ==
  \/ InitResults
  \/ SimulationBootstrap
  \/ MergeClientDictTry
  \/ MergeClientDictDone
  \/ SimulateReturns
  \/ SimulateExits
  \/ Finally
  \/ SysExit
  \/ Signal

InitSignal == NoMCS /\ IdleReplay /\ HandlersSet /\ IdleFuzz /\ NewTracker /\ IdleStats
  /\ IdleOpt /\ IdleEfficient /\ IdleSync /\ NewCounters /\ IdleTrial

SpecSignal == InitSignal /\ [][NextSignal]_vars

\* -------------------------------------------------------------- Fuzzer
\* The topology a fuzz run starts with, each kind in iteration order.
Switches == <<"s1", "s2">>
Links == <<"l1">>
Controllers == <<"c1">>
Hosts == <<"h1">>
\* The control channels: (switch, controller).
Connections == <<<<"s1", "c1">>>>
\* The elements of the list l that are in S, in the order of l.
ListOf(l, S) == SelectSeq(l, LAMBDA x : x \in S)
\* The elements of the list l that are not in S.
ListNotIn(l, S) == SelectSeq(l, LAMBDA x : x \notin S)

\* self.random: a seeded generator is a deterministic stream. Its state
\* steps through a full-period congruence; random() is the upper two bits of
\* the new state, in quarters.
NextRandom(x) == (5 * x + 3) % 16
RandomValue(x) == x \div 4
RECURSIVE RngAfter(_, _)
\* The state of the generator after k calls of random().
RngAfter(x, k) == IF k = 0 THEN x ELSE RngAfter(NextRandom(x), k - 1)
\* The k-th call of self.random.random() from state x is below the rate.
Below(x, k, rate) == RandomValue(RngAfter(x, k)) < rate
\* The elements of l for which `self.random.random() < rate` holds, when
\* one call is made per element, in order.
Hits(x, l, rate) == {l[i] : i \in {j \in DOMAIN l : Below(x, j, rate)}}
Seeds == {0, 6, 13}

\* The rates of config.fuzzer_params, in quarters.
ParamNames ==
  {"dataplane_delay_rate", "dataplane_drop_rate", "controlplane_block_rate",
   "controlplane_unblock_rate", "ofp_message_receipt_rate",
   "switch_failure_rate", "switch_recovery_rate", "link_failure_rate",
   "link_recovery_rate", "traffic_generation_rate", "controller_crash_rate",
   "controller_recovery_rate", "host_migration_rate"}
RecoveryParams ==
  {"switch_recovery_rate", "link_recovery_rate", "controller_recovery_rate",
   "controlplane_unblock_rate"}
FailureParams ==
  {"switch_failure_rate", "link_failure_rate", "controller_crash_rate",
   "controlplane_block_rate"}
ParamProfiles ==
  {[n \in ParamNames |-> 2],
   [n \in ParamNames |-> 4],
   [n \in ParamNames |-> IF n \in FailureParams THEN 0
                          ELSE IF n \in RecoveryParams THEN 4 ELSE 2],
   \* everything fails and stays down, no dataplane event is delayed or
   \* dropped by a roll
   [n \in ParamNames |-> IF n \in RecoveryParams
                               \cup {"dataplane_delay_rate",
                                     "dataplane_drop_rate"}
                          THEN 0 ELSE 4]}

\* The simulation after bootstrap: everything is up, nothing is queued.
bootstrap ==
  [live_switches |-> Range(Switches),
   live_links |-> Range(Links),
   live_controllers |-> Range(Controllers),
   blocked |-> {},
   pending_receives |-> {"m1"},
   queued |-> 0,
   access_links |-> [h \in Range(Hosts) |-> Switches[1]]]

\* Fuzzer.__init__ with a random_seed, and simulate() up to loop().
NewFuzzer ==
  /\ fpc = "loop"
  /\ run = 1
  /\ random_seed \in Seeds
  /\ rng = random_seed
  /\ params \in ParamProfiles
  /\ steps \in 1..MaxSteps
  \* check_interval is None (written 0) or a number of rounds
  /\ check_interval \in 0..MaxSteps
  /\ halt_on_violation \in BOOLEAN
  /\ trace_interval \in 1..MaxSteps
  /\ dataplane_trace \in BOOLEAN
  /\ violating_rounds \in SUBSET (1..MaxSteps)
  /\ logical_time = 0
  /\ end_time = steps
  /\ live_switches = bootstrap.live_switches
  /\ live_links = bootstrap.live_links
  /\ live_controllers = bootstrap.live_controllers
  /\ blocked = bootstrap.blocked
  /\ pending_receives = bootstrap.pending_receives
  /\ queued = bootstrap.queued
  /\ access_links = bootstrap.access_links
  /\ input_log = <<>>
  /\ logger_closed = FALSE
  /\ first_log = <<>>
  /\ steps_done = <<>>
  /\ failed_in_round = {}
  /\ recovered_in_round = {}

\* The steps of a round, in the order trigger_events calls them.
trigger_events ==
  <<"check_dataplane", "check_tcp_connections", "check_message_receipts",
    "check_switch_crashes", "check_link_failures", "fuzz_traffic",
    "check_controllers", "check_migrations">>
\* The position of a step in trigger_events.
StepIndex(step) == CHOOSE i \in DOMAIN trigger_events : trigger_events[i] = step
\* The order with link failures ahead of switch crashes.
AfterStepLinksFirst(step) ==
  LET swapped == [trigger_events EXCEPT ![4] = trigger_events[5],
                                         ![5] = trigger_events[4]]
      i == CHOOSE j \in DOMAIN swapped : swapped[j] = step
  IN  IF i < Len(swapped) THEN swapped[i + 1] ELSE "round_end"
\* Where control is when a step of trigger_events returns.
AfterStep(step) ==
  IF StepIndex(step) < Len(trigger_events)
    THEN trigger_events[StepIndex(step) + 1]
    ELSE "round_end"

\* What a step leaves alone besides the simulation and the generator.
FuzzConfigUnchanged ==
  UNCHANGED <<run, random_seed, params, steps, check_interval,
              halt_on_violation, trace_interval, dataplane_trace,
              violating_rounds, end_time, logger_closed, first_log>>
\* A step of trigger_events has run to its end.
StepDone(step) ==
  /\ fpc = step
  /\ fpc' = AfterStep(step)
  /\ steps_done' = Append(steps_done, step)
  /\ UNCHANGED logical_time
  /\ FuzzConfigUnchanged
\* The log entries of one kind for the elements of l that are in S.
Entries(kind, l, S) == [i \in DOMAIN ListOf(l, S) |-> <<kind, ListOf(l, S)[i]>>]
\* The entities of a second pass when nothing is skipped.
SecondPassAll(l, this_round) == l
\* The second pass of a step skips what the first pass took down:
\* `if x in crashed_this_round: continue`.
SecondPass(l, this_round) == ListNotIn(l, this_round)

\* while self.logical_time < end_time: self.logical_time += 1
LoopEnter ==
  /\ fpc = "loop"
  /\ logical_time < end_time
  /\ logical_time' = logical_time + 1
  /\ fpc' = trigger_events[1]
  /\ steps_done' = <<>>
  /\ failed_in_round' = {}
  /\ recovered_in_round' = {}
  /\ FuzzConfigUnchanged
  /\ UNCHANGED <<rng, live_switches, live_links, live_controllers, blocked,
                 pending_receives, queued, access_links, input_log>>
  /\ UNCHANGED <<mcsVars, replayVars, signalVars, trackVars, statsVars,
                 optVars, effVars, syncVars,
                 runVars, trialVars>>

RECURSIVE DataplaneDecisions(_, _)
\* (Mutant: the state of the link is ignored.)
DataplaneDecisionsLinkBlind(x, n) ==
  IF n = 0 THEN [rng |-> x, log |-> <<>>, queued |-> 0]
  ELSE
    LET x1 == NextRandom(x)
        x2 == NextRandom(x1)
    IN  IF RandomValue(x1) < params.dataplane_delay_rate
          THEN [DataplaneDecisions(x1, n - 1) EXCEPT !.queued = @ + 1]
          ELSE
            LET rest == DataplaneDecisions(x2, n - 1)
                entry == IF RandomValue(x2) < params.dataplane_drop_rate
                           THEN "DataplaneDrop"
                           ELSE "DataplanePermit"
            IN  [rest EXCEPT !.log = <<<<entry, "dp">>>> \o @]
\* check_dataplane over n queued events from generator state x: the state
\* of the generator afterwards, the entries logged and the events delayed.
DataplaneDecisions(x, n) ==
  IF n = 0 THEN [rng |-> x, log |-> <<>>, queued |-> 0]
  ELSE
    LET x1 == NextRandom(x)
        x2 == NextRandom(x1)
    IN  IF RandomValue(x1) < params.dataplane_delay_rate
          THEN [DataplaneDecisions(x1, n - 1) EXCEPT !.queued = @ + 1]
          ELSE
            LET rest == DataplaneDecisions(x2, n - 1)
                ok_to_send == live_links = Range(Links)
                entry == IF RandomValue(x2) < params.dataplane_drop_rate
                           THEN "DataplaneDrop"
                           ELSE IF ~ok_to_send THEN "DataplaneDrop"
                                ELSE "DataplanePermit"
            IN  [rest EXCEPT !.log = <<<<entry, "dp">>>> \o @]
\* (Mutant: the decisions are taken and none is logged.)
check_dataplane_unlogged ==
  /\ StepDone("check_dataplane")
  /\ LET d == DataplaneDecisions(rng, queued)
     IN  /\ rng' = d.rng
         /\ queued' = d.queued
         /\ UNCHANGED input_log
  /\ UNCHANGED <<live_switches, live_links, live_controllers, blocked,
                 pending_receives, access_links, failed_in_round,
                 recovered_in_round>>
  /\ UNCHANGED <<mcsVars, replayVars, signalVars, trackVars, statsVars,
                 optVars, effVars, syncVars,
                 runVars, trialVars>>
\* check_dataplane: a decision for every queued dataplane event.
check_dataplane ==
  /\ StepDone("check_dataplane")
  /\ LET d == DataplaneDecisions(rng, queued)
     IN  /\ rng' = d.rng
         /\ queued' = d.queued
         /\ input_log' = input_log \o d.log
  /\ UNCHANGED <<live_switches, live_links, live_controllers, blocked,
                 pending_receives, access_links, failed_in_round,
                 recovered_in_round>>
  /\ UNCHANGED <<mcsVars, replayVars, signalVars, trackVars, statsVars,
                 optVars, effVars, syncVars,
                 runVars, trialVars>>

check_tcp_connections ==
  /\ StepDone("check_tcp_connections")
  /\ LET unblocked == ListNotIn(Connections, blocked)
         now_blocked == Hits(rng, unblocked, params.controlplane_block_rate)
         rng1 == RngAfter(rng, Len(unblocked))
         blocked_list == ListOf(Connections, blocked \cup now_blocked)
         now_unblocked == Hits(rng1, blocked_list,
                               params.controlplane_unblock_rate)
     IN  /\ rng' = RngAfter(rng1, Len(blocked_list))
         /\ blocked' = (blocked \cup now_blocked) \ now_unblocked
         /\ input_log' = input_log
              \o Entries("ControlChannelBlock", unblocked, now_blocked)
              \o Entries("ControlChannelUnblock", blocked_list, now_unblocked)
  /\ UNCHANGED <<live_switches, live_links, live_controllers,
                 pending_receives, queued, access_links, failed_in_round,
                 recovered_in_round>>
  /\ UNCHANGED <<mcsVars, replayVars, signalVars, trackVars, statsVars,
                 optVars, effVars, syncVars,
                 runVars, trialVars>>

check_message_receipts ==
  /\ StepDone("check_message_receipts")
  /\ LET pending == ListOf(<<"m1">>, pending_receives)
         scheduled_now == Hits(rng, pending, params.ofp_message_receipt_rate)
     IN  /\ rng' = RngAfter(rng, Len(pending))
         /\ pending_receives' = pending_receives \ scheduled_now
         /\ input_log' = input_log
              \o Entries("ControlMessageReceive", pending, scheduled_now)
  /\ UNCHANGED <<live_switches, live_links, live_controllers, blocked,
                 queued, access_links, failed_in_round, recovered_in_round>>
  /\ UNCHANGED <<mcsVars, replayVars, signalVars, trackVars, statsVars,
                 optVars, effVars, syncVars,
                 runVars, trialVars>>

check_switch_crashes ==
  /\ StepDone("check_switch_crashes")
  /\ LET live == ListOf(Switches, live_switches)
         crashed_this_round == Hits(rng, live, params.switch_failure_rate)
         rng1 == RngAfter(rng, Len(live))
         failed == ListNotIn(Switches, live_switches \ crashed_this_round)
         candidates == SecondPass(failed, crashed_this_round)
         rebooted == Hits(rng1, candidates, params.switch_recovery_rate)
         \* recover_switch connects when some controller is up
         connected == IF live_controllers # {} THEN rebooted ELSE {}
     IN  /\ rng' = RngAfter(rng1, Len(candidates))
         /\ live_switches' = (live_switches \ crashed_this_round) \cup connected
         /\ failed_in_round' = failed_in_round \cup crashed_this_round
         /\ recovered_in_round' = recovered_in_round \cup rebooted
         /\ input_log' = input_log
              \o Entries("SwitchFailure", live, crashed_this_round)
              \o Entries("SwitchRecovery", candidates, connected)
  /\ UNCHANGED <<live_links, live_controllers, blocked, pending_receives,
                 queued, access_links>>
  /\ UNCHANGED <<mcsVars, replayVars, signalVars, trackVars, statsVars,
                 optVars, effVars, syncVars,
                 runVars, trialVars>>

check_link_failures ==
  /\ StepDone("check_link_failures")
  /\ LET live == ListOf(Links, live_links)
         cut_this_round == Hits(rng, live, params.link_failure_rate)
         rng1 == RngAfter(rng, Len(live))
         cut == ListNotIn(Links, live_links \ cut_this_round)
         candidates == SecondPass(cut, cut_this_round)
         repaired == Hits(rng1, candidates, params.link_recovery_rate)
     IN  /\ rng' = RngAfter(rng1, Len(candidates))
         /\ live_links' = (live_links \ cut_this_round) \cup repaired
         /\ failed_in_round' = failed_in_round \cup cut_this_round
         /\ recovered_in_round' = recovered_in_round \cup repaired
         /\ input_log' = input_log
              \o Entries("LinkFailure", live, cut_this_round)
              \o Entries("LinkRecovery", candidates, repaired)
  /\ UNCHANGED <<live_switches, live_controllers, blocked, pending_receives,
                 queued, access_links>>
  /\ UNCHANGED <<mcsVars, replayVars, signalVars, trackVars, statsVars,
                 optVars, effVars, syncVars,
                 runVars, trialVars>>

fuzz_traffic ==
  /\ StepDone("fuzz_traffic")
  /\ IF dataplane_trace
       THEN UNCHANGED <<rng, queued, input_log>>
       ELSE
         LET injecting == Hits(rng, Hosts, params.traffic_generation_rate)
         IN  \* the traffic generator picks the packet with the same generator
             /\ rng' = RngAfter(rng, Len(Hosts) + Cardinality(injecting))
             /\ queued' = queued + Cardinality(injecting)
             /\ input_log' = input_log
                  \o Entries("TrafficInjection", Hosts, injecting)
  /\ UNCHANGED <<live_switches, live_links, live_controllers, blocked,
                 pending_receives, access_links, failed_in_round,
                 recovered_in_round>>
  /\ UNCHANGED <<mcsVars, replayVars, signalVars, trackVars, statsVars,
                 optVars, effVars, syncVars,
                 runVars, trialVars>>

check_controllers ==
  /\ StepDone("check_controllers")
  /\ LET live == ListOf(Controllers, live_controllers)
         crashed_this_round == Hits(rng, live, params.controller_crash_rate)
         rng1 == RngAfter(rng, Len(live))
         down == ListNotIn(Controllers, live_controllers \ crashed_this_round)
         candidates == SecondPass(down, crashed_this_round)
         rebooted == Hits(rng1, candidates, params.controller_recovery_rate)
     IN  /\ rng' = RngAfter(rng1, Len(candidates))
         /\ live_controllers' =
              (live_controllers \ crashed_this_round) \cup rebooted
         /\ failed_in_round' = failed_in_round \cup crashed_this_round
         /\ recovered_in_round' = recovered_in_round \cup rebooted
         /\ input_log' = input_log
              \o Entries("ControllerFailure", live, crashed_this_round)
              \o Entries("ControllerRecovery", candidates, rebooted)
  /\ UNCHANGED <<live_switches, live_links, blocked, pending_receives,
                 queued, access_links>>
  /\ UNCHANGED <<mcsVars, replayVars, signalVars, trackVars, statsVars,
                 optVars, effVars, syncVars,
                 runVars, trialVars>>

\* check_migrations for the one access link: the roll comes from
\* self.random, the new switch from random.choice of the random module,
\* whose generator the fuzzer never seeds.
check_migrations ==
  /\ StepDone("check_migrations")
  /\ rng' = RngAfter(rng, Len(Hosts))
  /\ LET migrating == Hits(rng, Hosts, params.host_migration_rate)
         live_edge_switches == ListOf(Switches, live_switches)
     IN  IF migrating # {} /\ Len(live_edge_switches) > 0
           THEN \E new_switch \in Range(live_edge_switches) :
                  /\ access_links' =
                       [access_links EXCEPT ![Hosts[1]] = new_switch]
                  /\ input_log' = Append(input_log,
                       <<"HostMigration", access_links[Hosts[1]], new_switch>>)
           ELSE UNCHANGED <<access_links, input_log>>
  /\ UNCHANGED <<live_switches, live_links, live_controllers, blocked,
                 pending_receives, queued, failed_in_round,
                 recovered_in_round>>
  /\ UNCHANGED <<mcsVars, replayVars, signalVars, trackVars, statsVars,
                 optVars, effVars, syncVars,
                 runVars, trialVars>>

\* maybe_check_invariant: True only for a violation under halt_on_violation.
maybe_check_invariant ==
  /\ check_interval # 0
  /\ logical_time % check_interval = 0
  /\ logical_time \in violating_rounds
  /\ halt_on_violation
\* The rest of a round: the invariant check, then the trace event.
RoundEnd ==
  /\ fpc = "round_end"
  /\ IF maybe_check_invariant
       THEN /\ fpc' = "finally"
            /\ UNCHANGED input_log
       ELSE /\ fpc' = "loop"
            /\ input_log' =
                 IF dataplane_trace /\ logical_time % trace_interval = 0
                   THEN Append(input_log, <<"TrafficInjection", "trace">>)
                   ELSE input_log
  /\ FuzzConfigUnchanged
  /\ UNCHANGED <<rng, logical_time, live_switches, live_links,
                 live_controllers, blocked, pending_receives, queued,
                 access_links, steps_done, failed_in_round,
                 recovered_in_round>>
  /\ UNCHANGED <<mcsVars, replayVars, signalVars, trackVars, statsVars,
                 optVars, effVars, syncVars,
                 runVars, trialVars>>

\* The loop condition fails.
LoopLeave ==
  /\ fpc = "loop"
  /\ ~(logical_time < end_time)
  /\ fpc' = "finally"
  /\ FuzzConfigUnchanged
  /\ UNCHANGED <<rng, logical_time, live_switches, live_links,
                 live_controllers, blocked, pending_receives, queued,
                 access_links, input_log, steps_done, failed_in_round,
                 recovered_in_round>>
  /\ UNCHANGED <<mcsVars, replayVars, signalVars, trackVars, statsVars,
                 optVars, effVars, syncVars,
                 runVars, trialVars>>

\* (Mutant: an exception leaves the loop past the finally clause.)
LoopRaiseUnclosed ==
  /\ fpc \in Range(trigger_events) \cup {"round_end"}
  /\ fpc' = "raised"
  /\ FuzzConfigUnchanged
  /\ UNCHANGED <<rng, logical_time, live_switches, live_links,
                 live_controllers, blocked, pending_receives, queued,
                 access_links, input_log, steps_done, failed_in_round,
                 recovered_in_round>>
  /\ UNCHANGED <<mcsVars, replayVars, signalVars, trackVars, statsVars,
                 optVars, effVars, syncVars,
                 runVars, trialVars>>
\* A call made in the body of the loop raises an exception: control goes
\* to the finally clause with the exception pending.
LoopRaise ==
  /\ fpc \in Range(trigger_events) \cup {"round_end"}
  /\ fpc' = "finally_raising"
  /\ FuzzConfigUnchanged
  /\ UNCHANGED <<rng, logical_time, live_switches, live_links,
                 live_controllers, blocked, pending_receives, queued,
                 access_links, input_log, steps_done, failed_in_round,
                 recovered_in_round>>
  /\ UNCHANGED <<mcsVars, replayVars, signalVars, trackVars, statsVars,
                 optVars, effVars, syncVars,
                 runVars, trialVars>>

\* finally: self._input_logger.close(self.simulation)
LoopFinally ==
  /\ fpc \in {"finally", "finally_raising"}
  /\ fpc' = IF fpc = "finally" THEN "done" ELSE "raised"
  /\ logger_closed' = TRUE
  /\ UNCHANGED <<run, random_seed, params, steps, check_interval,
                 halt_on_violation, trace_interval, dataplane_trace,
                 violating_rounds, end_time, first_log>>
  /\ UNCHANGED <<rng, logical_time, live_switches, live_links,
                 live_controllers, blocked, pending_receives, queued,
                 access_links, input_log, steps_done, failed_in_round,
                 recovered_in_round>>
  /\ UNCHANGED <<mcsVars, replayVars, signalVars, trackVars, statsVars,
                 optVars, effVars, syncVars,
                 runVars, trialVars>>

\* A second fuzzer is built with the same seed, parameters and topology
\* and run; the log of the first run is kept for comparison.
SecondRun ==
  /\ fpc = "done"
  /\ run = 1
  /\ run' = 2
  /\ first_log' = input_log
  /\ fpc' = "loop"
  /\ rng' = random_seed
  /\ logical_time' = 0
  /\ live_switches' = bootstrap.live_switches
  /\ live_links' = bootstrap.live_links
  /\ live_controllers' = bootstrap.live_controllers
  /\ blocked' = bootstrap.blocked
  /\ pending_receives' = bootstrap.pending_receives
  /\ queued' = bootstrap.queued
  /\ access_links' = bootstrap.access_links
  /\ input_log' = <<>>
  /\ logger_closed' = FALSE
  /\ steps_done' = <<>>
  /\ failed_in_round' = {}
  /\ recovered_in_round' = {}
  /\ UNCHANGED <<random_seed, params, steps, check_interval,
                 halt_on_violation, trace_interval, dataplane_trace,
                 violating_rounds, end_time>>
  /\ UNCHANGED <<mcsVars, replayVars, signalVars, trackVars, statsVars,
                 optVars, effVars, syncVars,
                 runVars, trialVars>>

NextFuzz ==
  \/ LoopEnter
  \/ check_dataplane
  \/ check_tcp_connections
  \/ check_message_receipts
  \/ check_switch_crashes
  \/ check_link_failures
  \/ fuzz_traffic
  \/ check_controllers
  \/ check_migrations
  \/ RoundEnd
  \/ LoopLeave
  \/ LoopRaise
  \/ LoopFinally
  \/ SecondRun
InitFuzz == NoMCS /\ IdleReplay /\ IdleSignal /\ NewFuzzer /\ NewTracker /\ IdleStats
  /\ IdleOpt /\ IdleEfficient /\ IdleSync /\ NewCounters /\ IdleTrial
SpecFuzz == InitFuzz /\ [][NextFuzz]_vars

\* -------------------------------------------------------- RuntimeStats
\* The most trials of one run of the merge.
MaxTrials == 2
\* The most violations one process records in a trial.
MaxRecords == 2
\* A dictionary key: an int, or the string str() makes of it.
IntKey(i) == <<"int", i>>
str(key) == <<"str", key[2]>>
\* dict(a.items() + b.items()): where both have a key, b's entry stays.
DictOfItems(a, b) ==
  [k \in DOMAIN a \cup DOMAIN b |-> IF k \in DOMAIN b THEN b[k] ELSE a[k]]
\* RuntimeStats.__init__: the counter and, of the per-trial dictionaries,
\* timed_out_events (the others are recorded and merged the same way).
RuntimeStats(id) ==
  [subsequence_id |-> id,
   violation_found_in_run |-> <<>>,
   is_Counter |-> TRUE,
   timed_out_events |-> <<>>]
\* record_violation_found(verification_iteration)
record_violation_found(stats, verification_iteration) ==
  [stats EXCEPT
     !.is_Counter = TRUE,
     !.violation_found_in_run =
        Incr(stats.violation_found_in_run, IntKey(verification_iteration))]
\* record_timed_out_events(timed_out_events)
record_timed_out_events(stats, timed_out_events) ==
  [stats EXCEPT
     !.timed_out_events =
        DictOfItems(@, IntKey(stats.subsequence_id) :> timed_out_events)]
\* client_dict(): the child fields with their keys made strings.
client_dict(stats) ==
  LET stringified(v) ==
        [k \in {str(key) : key \in DOMAIN v} |->
           v[CHOOSE key \in DOMAIN v : str(key) = k]]
  IN  [violation_found_in_run |-> stringified(stats.violation_found_in_run),
       timed_out_events |-> stringified(stats.timed_out_events)]
\* for k, count in value.iteritems(): getattr(self, field)[k] += count
\* raises KeyError when the field is a plain dict without the key.
RaisesKeyError(stats, d) ==
  /\ ~stats.is_Counter
  /\ ~(DOMAIN d.violation_found_in_run \subseteq
         DOMAIN stats.violation_found_in_run)
\* merge_client_dict(client_dict) when it returns.
merge_client_dict(stats, d) ==
  LET counted ==
        [k \in DOMAIN stats.violation_found_in_run
                 \cup DOMAIN d.violation_found_in_run |->
           Count(stats.violation_found_in_run, k)
             + Count(d.violation_found_in_run, k)]
  IN  [stats EXCEPT
         !.violation_found_in_run =
            DictOfItems(counted, d.violation_found_in_run),
         !.is_Counter = FALSE,
         !.timed_out_events = DictOfItems(@, d.timed_out_events)]

\* MCSFinder.__init__: self._runtime_stats = RuntimeStats(self.subsequence_id)
NewStats ==
  /\ stpc = "parent"
  /\ stats_subsequence_id = 0
  /\ ignore_runtime_stats = FALSE
  /\ parent_stats = RuntimeStats(0)
  /\ child_stats = <<>>

\* replay(): self.subsequence_id += 1 and the fork of play_forward, where
\* the child starts its own RuntimeStats(subsequence_id).
StatsFork ==
  /\ stpc = "parent"
  /\ stats_subsequence_id < MaxTrials
  /\ stats_subsequence_id' = stats_subsequence_id + 1
  /\ ignore_runtime_stats' \in BOOLEAN
  /\ child_stats' = RuntimeStats(stats_subsequence_id')
  /\ stpc' = "child"
  /\ UNCHANGED parent_stats
  /\ UNCHANGED <<mcsVars, replayVars, signalVars, fuzzVars, trackVars, optVars,
                 effVars, syncVars,
                 runVars, trialVars>>

\* The child records that the violation was found at a run.
ChildRecordsViolation ==
  /\ stpc = "child"
  /\ \E verification_iteration \in 0..(MaxRuns - 1) :
       /\ Count(child_stats.violation_found_in_run,
                IntKey(verification_iteration)) < MaxRecords
       /\ child_stats' =
            record_violation_found(child_stats, verification_iteration)
  /\ UNCHANGED <<stpc, stats_subsequence_id, ignore_runtime_stats,
                 parent_stats>>
  /\ UNCHANGED <<mcsVars, replayVars, signalVars, fuzzVars, trackVars, optVars,
                 effVars, syncVars,
                 runVars, trialVars>>

\* _track_new_internal_events: the child records the timeouts of its replay.
ChildRecordsTimeouts ==
  /\ stpc = "child"
  /\ \E timed_out_events \in 0..1 :
       child_stats' = record_timed_out_events(child_stats, timed_out_events)
  /\ child_stats' # child_stats
  /\ UNCHANGED <<stpc, stats_subsequence_id, ignore_runtime_stats,
                 parent_stats>>
  /\ UNCHANGED <<mcsVars, replayVars, signalVars, fuzzVars, trackVars, optVars,
                 effVars, syncVars,
                 runVars, trialVars>>

\* The child returns its client_dict(); the parent merges it unless the
\* replay was asked to ignore the runtime stats.
StatsMerge ==
  /\ stpc = "child"
  /\ IF ignore_runtime_stats
       THEN /\ stpc' = "parent"
            /\ UNCHANGED parent_stats
       ELSE IF RaisesKeyError(parent_stats, client_dict(child_stats))
         THEN /\ stpc' = "KeyError"
              \* the fields are merged in the order of the dictionary; those
              \* before the counter are merged already
              /\ \E merged_before \in BOOLEAN :
                   parent_stats' =
                     IF merged_before
                       THEN [parent_stats EXCEPT
                               !.timed_out_events =
                                  DictOfItems(@, client_dict(child_stats)
                                                   .timed_out_events)]
                       ELSE parent_stats
         ELSE /\ stpc' = "parent"
              /\ parent_stats' =
                   merge_client_dict(parent_stats, client_dict(child_stats))
  /\ UNCHANGED <<stats_subsequence_id, ignore_runtime_stats, child_stats>>
  /\ UNCHANGED <<mcsVars, replayVars, signalVars, fuzzVars, trackVars, optVars,
                 effVars, syncVars,
                 runVars, trialVars>>

\* _check_violation in the parent: record_violation_found(i).
ParentRecordsViolation ==
  /\ stpc = "parent"
  /\ stats_subsequence_id > 0
  /\ \E verification_iteration \in 0..(MaxRuns - 1) :
       /\ Count(parent_stats.violation_found_in_run,
                IntKey(verification_iteration)) < MaxRecords
       /\ parent_stats' =
            record_violation_found(parent_stats, verification_iteration)
  /\ UNCHANGED <<stpc, stats_subsequence_id, ignore_runtime_stats,
                 child_stats>>
  /\ UNCHANGED <<mcsVars, replayVars, signalVars, fuzzVars, trackVars, optVars,
                 effVars, syncVars,
                 runVars, trialVars>>

NextStats ==
  \/ StatsFork
  \/ ChildRecordsViolation
  \/ ChildRecordsTimeouts
  \/ StatsMerge
  \/ ParentRecordsViolation
InitStats ==
  NoMCS /\ IdleReplay /\ IdleSignal /\ IdleFuzz /\ NewTracker /\ NewStats
    /\ IdleOpt /\ IdleEfficient /\ IdleSync /\ NewCounters /\ IdleTrial
SpecStats == InitStats /\ [][NextStats]_vars

\* ------------------------------------------------- _optimize_event_dag
\* The event types the optimization goes through, in its order: traffic
\* (the inputs of other classes), failures, recoveries.
event_types == <<"Other", "Failure", "Recovery">>
\* isinstance(e, event_type)
isinstance(e, event_type) == trace[e].cls = event_type

\* simulate() with optimized_filtering, about to call _optimize_event_dag:
\* the DAG has its invalid input sequences dropped and is not empty; the
\* reproducibility pass was not asked for.
NewOpt ==
  /\ trace \in SeqsUpTo(InputEvents, MaxInputs)
  /\ internal_events \in InternalEventLists \ {<<>>}
  /\ dag = mark_invalid_input_sequences([i \in 1..Len(trace) |-> i])
  /\ oracleMode \in {"required", "deterministic", "flaky"}
  /\ required \in IF oracleMode = "required"
                  THEN (SUBSET (1..Len(trace))) \ {{}}
                  ELSE {{}}
  /\ verdict = <<>>
  /\ no_violation_verification_runs = 1
  /\ check_reproducability = FALSE
  /\ pc = "optimize"
  /\ bug_signature \in Range(internal_events[1].violations)
  /\ cur = <<>>
  /\ split_ways = 0
  /\ idx = 0
  /\ cand = <<>>
  /\ attempt = 0
  /\ precompute_cache = {}
  /\ total_inputs_pruned = 0
  /\ violations = <<>>
  /\ bug_found = FALSE
  /\ subsequence_id = 0
  /\ exit_code = -1
  /\ tested = <<>>
  /\ replayed = <<>>
  /\ event_type_index = 0
  /\ opt_log = <<>>

\* One iteration of `for event_type in event_types`.
OptimizeEventType ==
  /\ pc = "optimize"
  /\ event_type_index < Len(event_types)
  /\ event_type_index' = event_type_index + 1
  /\ LET event_type == event_types[event_type_index + 1]
         pruned == SelectSeq(dag, LAMBDA e : ~isinstance(e, event_type))
         pruned_dag == input_complement(dag, pruned)
     IN  IF Len(pruned) = Len(dag)
           THEN UNCHANGED <<dag, verdict, subsequence_id, violations,
                            bug_found, opt_log, total_replays,
                            replay_dir_count>>
           ELSE /\ \E vs \in ViolationLists : Replay(pruned_dag, vs)
                /\ dag' = IF bug_found' THEN pruned_dag ELSE dag
                /\ opt_log' = Append(opt_log,
                     [event_type |-> event_type, dag |-> dag,
                      pruned_dag |-> pruned_dag, bug_found |-> bug_found'])
  /\ UNCHANGED <<trace, internal_events, oracleMode, required,
                 no_violation_verification_runs, check_reproducability, pc,
                 bug_signature, cur, split_ways, idx, cand, attempt,
                 precompute_cache, total_inputs_pruned, exit_code, tested,
                 replayed>>
  /\ UNCHANGED <<replayVars, signalVars, fuzzVars, trackVars, statsVars,
                 effVars, syncVars,
                 iteration_size, trialVars>>

\* The loop is over; simulate() goes on to _ddmin(self.dag, 2, ...).
OptimizeDone ==
  /\ pc = "optimize"
  /\ event_type_index = Len(event_types)
  /\ StartPruning(dag)
  /\ UNCHANGED <<trace, internal_events, oracleMode, required, verdict,
                 no_violation_verification_runs, check_reproducability,
                 bug_signature, dag, cand, attempt, violations, bug_found,
                 subsequence_id, exit_code, tested, replayed>>
  /\ UNCHANGED <<replayVars, signalVars, fuzzVars, trackVars, statsVars,
                 optVars, effVars, syncVars,
                 runVars, trialVars>>

NextOpt ==
  \/ OptimizeEventType
  \/ OptimizeDone
InitOpt ==
  NewOpt /\ IdleReplay /\ IdleSignal /\ IdleFuzz /\ NewTracker /\ IdleStats
    /\ IdleEfficient /\ IdleSync /\ NewCounters /\ IdleTrial
SpecOpt == InitOpt /\ [][NextOpt]_vars

\* --------------------------------------------------- EfficientMCSFinder
\* dag.atomic_input_events: a failure together with the recoveries that
\* depend on it is one atom, every other input an atom of its own.
atomic_input_events(d) ==
  LET head(x) == IF trace[x].cls = "Recovery" /\ MatchingFailure(x) \in Range(d)
                   THEN MatchingFailure(x) ELSE x
      heads == SelectSeq(d, LAMBDA x : head(x) = x)
  IN  [i \in DOMAIN heads |-> SelectSeq(d, LAMBDA x : head(x) = heads[i])]
\* The inputs of a list of atoms.
AtomInputs(atoms) == UNION {Range(atoms[i]) : i \in DOMAIN atoms}
\* dag.atomic_input_subset(atoms): the inputs of d that are in the atoms.
atomic_input_subset(d, atoms) == SelectSeq(d, LAMBDA x : x \in AtomInputs(atoms))
\* dag.insert_atomic_inputs(atoms): the atoms added to d, in record order.
insert_atomic_inputs(d, atoms) ==
  SelectSeq([i \in 1..Len(trace) |-> i],
            LAMBDA x : x \in Range(d) \cup AtomInputs(atoms))
\* _check_violation(test_dag, ...) under an oracle that always answers the
\* same for the same inputs.
check_violation(test_dag) ==
  \E vs \in ViolationLists :
    OracleReturns(test_dag, vs) /\ BugFound(vs, bug_signature)

RECURSIVE EfficientDdmin(_, _)
\* EfficientMCSFinder._ddmin(dag, carryover_inputs), for a DAG with an atom.
EfficientDdmin(d, carryover_inputs) ==
  IF Len(atomic_input_events(d)) = 1 THEN d
  ELSE
    LET halves == split_list(atomic_input_events(d), 2)
        left_dag == atomic_input_subset(d, halves[1])
        right_dag == atomic_input_subset(d, halves[2])
    IN  IF check_violation(insert_atomic_inputs(left_dag, carryover_inputs))
          THEN EfficientDdmin(left_dag, carryover_inputs)
        ELSE IF check_violation(insert_atomic_inputs(right_dag, carryover_inputs))
          THEN EfficientDdmin(right_dag, carryover_inputs)
        ELSE
          LET left_result ==
                EfficientDdmin(left_dag,
                  atomic_input_events(
                    insert_atomic_inputs(right_dag, carryover_inputs)))
              right_result ==
                EfficientDdmin(right_dag,
                  atomic_input_events(
                    insert_atomic_inputs(left_dag, carryover_inputs)))
          IN  insert_atomic_inputs(left_result,
                                   atomic_input_events(right_result))

\* An MCSFinder under an oracle fixed by the inputs, with an
\* EfficientMCSFinder to be run on the same DAG.
NewEfficient ==
  /\ NewMCS
  /\ oracleMode = "required"
  /\ eff_pc = "ready"
  /\ efficient_dag = <<>>

\* simulate() of the EfficientMCSFinder on the DAG the MCSFinder was given,
\* once the MCSFinder has returned: _ddmin(self.dag, 2, ...) takes the 2 for
\* no carry-over; a DAG without inputs cannot be split in two.
EfficientSimulate ==
  /\ pc = "exited"
  /\ exit_code = 0
  /\ eff_pc = "ready"
  /\ LET d == mark_invalid_input_sequences([i \in 1..Len(trace) |-> i])
     IN  IF d = <<>>
           THEN /\ eff_pc' = "ValueError"
                /\ UNCHANGED efficient_dag
           ELSE /\ eff_pc' = "returned"
                /\ efficient_dag' = EfficientDdmin(d, <<>>)
  /\ UNCHANGED <<mcsVars, replayVars, signalVars, fuzzVars, trackVars,
                 statsVars, optVars, syncVars,
                 runVars, trialVars>>

NextEfficient ==
  \/ Construct
  \/ Simulate
  \/ Reproducibility
  \/ DdminEnter
  \/ SubsetStep
  \/ NoSubsets
  \/ CheckSubset
  \/ ComplementStep
  \/ NoComplements
  \/ CheckComplement
  \/ FinalReplay
  \/ EfficientSimulate
InitEfficient ==
  NewEfficient /\ IdleReplay /\ IdleSignal /\ IdleFuzz /\ NewTracker
    /\ IdleStats /\ IdleOpt /\ IdleSync /\ NewCounters /\ IdleTrial
SpecEfficient == InitEfficient /\ [][NextEfficient]_vars

\* ------------------------------------------------------- sync callbacks
\* The most calls made to one sync callback.
MaxSyncCalls == 4

\* The ASYNC StateChange messages a controller sends: two fingerprints are
\* enough for equal and different state changes to interleave.
StateChangeMessages ==
  [time : {SyncTime(0, 300)}, fingerPrint : {"fp1", "fp2"}, name : {"n"},
   value : {"v"}]
\* PendingStateChange(controller_id, time, fingerprint, name, value)
PendingStateChange(controller_id, time, fingerprint, name, value) ==
  [controller_id |-> controller_id, time |-> time,
   fingerprint |-> fingerprint, name |-> name, value |-> value]
\* ControllerStateChange(*args): the replay event, by the arguments given.
ControllerStateChange(args) == [cls |-> "ControllerStateChange", args |-> args]
\* One call in the history of calls.
Call(op, arg) == [op |-> op, arg |-> arg]

\* ReplaySyncCallback.state_change_pending on the Counter c: reading a key
\* that is absent gives 0 and stores nothing.
state_change_pending(c, pending_state_change) ==
  Count(c, pending_state_change) > 0

\* (Mutant: the key is left in the Counter whatever its count.)
gc_pending_state_change_undeleted(c, pending_state_change) ==
  [x \in DOMAIN c \cup {pending_state_change} |->
     Count(c, x) - (IF x = pending_state_change THEN 1 ELSE 0)]
\* (Mutant: every occurrence is collected at once.)
gc_pending_state_change_all(c, pending_state_change) ==
  [x \in DOMAIN c \ {pending_state_change} |-> c[x]]
\* (Mutant: nothing is collected.)
gc_pending_state_change_kept(c, pending_state_change) == c
\* gc_pending_state_change on the Counter c: one less, and the key deleted
\* when its count is not positive.
gc_pending_state_change(c, pending_state_change) ==
  LET decremented ==
        [x \in DOMAIN c \cup {pending_state_change} |->
           Count(c, x) - (IF x = pending_state_change THEN 1 ELSE 0)]
  IN  IF decremented[pending_state_change] <= 0
        THEN [x \in DOMAIN c \ {pending_state_change} |-> c[x]]
        ELSE decremented

\* A simulation set up with its sync callback: the ReplaySyncCallback of a
\* Replayer, or the RecordingSyncCallback of a Fuzzer with or without an
\* input logger.
NewSync ==
  /\ state_master \in {"ReplaySyncCallback", "RecordingSyncCallback"}
  /\ input_logger \in
       IF state_master = "RecordingSyncCallback"
         THEN {None, "InputLogger"} ELSE {None}
  /\ get_interpolated_time \in
       IF state_master = "ReplaySyncCallback"
         THEN {SyncTime(0, 0), SyncTime(0, 300)} ELSE {None}
  /\ _pending_state_changes = <<>>
  /\ listening = FALSE
  /\ passed_through_events = <<>>
  /\ logged_events = <<>>
  /\ sent = <<>>
  /\ raised = None
  /\ det_value = <<>>
  /\ observed_events = <<>>
  /\ sync_calls = <<>>

\* STSSyncProtocolSpeaker._log_state_change: state_master.state_change(...).
\* Replay: the Counter counts the state change, and StateChange is raised to
\* the listeners; _pass_through_handler, when listening, collects it from
\* the buffer again and records it. Recording: the state change is logged.
LogStateChange ==
  /\ state_master # None
  /\ Len(sync_calls) < MaxSyncCalls
  /\ \E message \in StateChangeMessages :
       LET pending_state_change ==
             PendingStateChange("c1", message.time, message.fingerPrint,
                                message.name, message.value)
           counted == Incr(_pending_state_changes, pending_state_change)
       IN  /\ IF state_master = "ReplaySyncCallback"
                THEN /\ IF listening
                          THEN /\ _pending_state_changes' =
                                    gc_pending_state_change(counted,
                                                            pending_state_change)
                               /\ passed_through_events' =
                                    Append(passed_through_events,
                                      ControllerStateChange(
                                        <<pending_state_change.controller_id,
                                          pending_state_change.time,
                                          pending_state_change.fingerprint,
                                          pending_state_change.name,
                                          pending_state_change.value>>))
                          ELSE /\ _pending_state_changes' = counted
                               /\ UNCHANGED passed_through_events
                     /\ UNCHANGED logged_events
                ELSE /\ IF input_logger # None
                          THEN logged_events' =
                                 Append(logged_events,
                                   ControllerStateChange(
                                     <<<<"c1", message.time, message.fingerPrint,
                                         message.name, message.value>>>>))
                          ELSE UNCHANGED logged_events
                     /\ UNCHANGED <<_pending_state_changes,
                                    passed_through_events>>
           /\ sync_calls' =
                Append(sync_calls, Call("state_change", pending_state_change))
  /\ raised' = None
  /\ UNCHANGED <<state_master, input_logger, get_interpolated_time, listening,
                 sent, det_value, observed_events>>
  /\ UNCHANGED <<mcsVars, replayVars, signalVars, fuzzVars, trackVars,
                 statsVars, optVars, effVars,
                 runVars, trialVars>>

\* (Mutant: every name is answered like gettimeofday.)
get_deterministic_value_any_name(name, now) ==
  [raised |-> None,
   value |-> <<IF state_master = "ReplaySyncCallback"
                 THEN get_interpolated_time ELSE now>>]
\* get_deterministic_value(controller, name) of the two callbacks, with the
\* value returned as a list of one, and no value when it raises: the
\* interpolated time in replay, SyncTime.now() in recording, ValueError for
\* every other name.
get_deterministic_value(name, now) ==
  IF name = "gettimeofday"
    THEN [raised |-> None,
          value |-> <<IF state_master = "ReplaySyncCallback"
                        THEN get_interpolated_time ELSE now>>]
    ELSE [raised |-> "ValueError: unsupported deterministic value",
          value |-> <<>>]

\* STSSyncProtocolSpeaker._get_deterministic_value: the value of
\* state_master.get_deterministic_value(controller, message.name) is sent
\* back as a RESPONSE; an exception leaves before a response is built. The
\* RecordingSyncCallback logs nothing: its log_input_event statement is
\* commented out.
GetDeterministicValue ==
  /\ state_master # None
  /\ Len(sync_calls) < MaxSyncCalls
  /\ \E name \in {"gettimeofday", "random"}, xid \in {1, 2},
        now \in {SyncTime(1, 300), SyncTime(1, 800)} :
       LET result == get_deterministic_value(name, now)
       IN  /\ raised' = result.raised
           /\ det_value' = det_value \o result.value
           /\ IF result.raised = None
                THEN sent' = Append(sent,
                       [type |-> "RESPONSE",
                        messageClass |-> "DeterministicValue",
                        time |-> now, xid |-> xid,
                        value |-> result.value[1]])
                ELSE UNCHANGED sent
           /\ sync_calls' =
                Append(sync_calls,
                  Call("get_deterministic_value",
                       [name |-> name, xid |-> xid, now |-> now]))
  /\ UNCHANGED <<state_master, input_logger, get_interpolated_time,
                 _pending_state_changes, listening, passed_through_events,
                 logged_events, observed_events>>
  /\ UNCHANGED <<mcsVars, replayVars, signalVars, fuzzVars, trackVars,
                 statsVars, optVars, effVars,
                 runVars, trialVars>>

\* Simulation.set_pass_through at the start of a bootstrap: a sync callback
\* that has set_pass_through (the ReplaySyncCallback) empties its list and
\* starts listening.
SetPassThrough ==
  /\ state_master # None
  /\ Len(sync_calls) < MaxSyncCalls
  /\ ~listening
  /\ IF state_master = "ReplaySyncCallback"
       THEN /\ passed_through_events' = <<>>
            /\ listening' = TRUE
       ELSE UNCHANGED <<passed_through_events, listening>>
  /\ raised' = None
  /\ sync_calls' = Append(sync_calls, Call("set_pass_through", [none |-> 0]))
  /\ UNCHANGED <<state_master, input_logger, get_interpolated_time,
                 _pending_state_changes, logged_events, sent, det_value,
                 observed_events>>
  /\ UNCHANGED <<mcsVars, replayVars, signalVars, fuzzVars, trackVars,
                 statsVars, optVars, effVars,
                 runVars, trialVars>>

\* Simulation.unset_pass_through at the end of a bootstrap: what the
\* OpenFlow buffer passed through, followed by what the sync callback did.
UnsetPassThrough ==
  /\ state_master # None
  /\ Len(sync_calls) < MaxSyncCalls
  /\ state_master = "ReplaySyncCallback" => listening
  /\ \E openflow_events \in
          {<<>>, <<[cls |-> "ControlMessageReceive", args |-> <<"m1">>]>>} :
       IF state_master = "ReplaySyncCallback"
         THEN /\ listening' = FALSE
              /\ observed_events' = openflow_events \o passed_through_events
              /\ passed_through_events' = <<>>
         ELSE /\ observed_events' = openflow_events
              /\ UNCHANGED <<listening, passed_through_events>>
  /\ raised' = None
  /\ sync_calls' = Append(sync_calls, Call("unset_pass_through", [none |-> 0]))
  /\ UNCHANGED <<state_master, input_logger, get_interpolated_time,
                 _pending_state_changes, logged_events, sent, det_value>>
  /\ UNCHANGED <<mcsVars, replayVars, signalVars, fuzzVars, trackVars,
                 statsVars, optVars, effVars,
                 runVars, trialVars>>

\* The event scheduler collects a state change it has matched (or has timed
\* out on) with ReplaySyncCallback.gc_pending_state_change.
GcPendingStateChange ==
  /\ state_master = "ReplaySyncCallback"
  /\ Len(sync_calls) < MaxSyncCalls
  /\ \E message \in StateChangeMessages :
       LET pending_state_change ==
             PendingStateChange("c1", message.time, message.fingerPrint,
                                message.name, message.value)
       IN  /\ _pending_state_changes' =
                gc_pending_state_change(_pending_state_changes,
                                        pending_state_change)
           /\ sync_calls' =
                Append(sync_calls,
                       Call("gc_pending_state_change", pending_state_change))
  /\ raised' = None
  /\ UNCHANGED <<state_master, input_logger, get_interpolated_time, listening,
                 passed_through_events, logged_events, sent, det_value,
                 observed_events>>
  /\ UNCHANGED <<mcsVars, replayVars, signalVars, fuzzVars, trackVars,
                 statsVars, optVars, effVars,
                 runVars, trialVars>>

\* ReplaySyncCallback.flush: a new, empty Counter.
Flush ==
  /\ state_master = "ReplaySyncCallback"
  /\ Len(sync_calls) < MaxSyncCalls
  /\ _pending_state_changes' = <<>>
  /\ raised' = None
  /\ sync_calls' = Append(sync_calls, Call("flush", [none |-> 0]))
  /\ UNCHANGED <<state_master, input_logger, get_interpolated_time, listening,
                 passed_through_events, logged_events, sent, det_value,
                 observed_events>>
  /\ UNCHANGED <<mcsVars, replayVars, signalVars, fuzzVars, trackVars,
                 statsVars, optVars, effVars,
                 runVars, trialVars>>

NextSync ==
  \/ LogStateChange
  \/ GetDeterministicValue
  \/ SetPassThrough
  \/ UnsetPassThrough
  \/ GcPendingStateChange
  \/ Flush
InitSync ==
  NoMCS /\ IdleReplay /\ IdleSignal /\ IdleFuzz /\ NewTracker /\ IdleStats
    /\ IdleOpt /\ IdleEfficient /\ NewSync /\ NewCounters /\ IdleTrial
SpecSync == InitSync /\ [][NextSync]_vars

\* ------------------------------------------- play_forward, one replay trial
\* The most trials played.
MaxPlays == 3

\* replay() forks play_forward: the child sets up its input logger and its
\* replayer, with violations = [] and simulation = None.
PlayForward ==
  /\ tpc \in {"idle", "returned", "raised"}
  /\ trials < MaxPlays
  /\ trials' = trials + 1
  /\ tpc' = "simulate"
  /\ simulation' = None
  /\ trial_violations' = <<>>
  /\ pending_exception' = None
  /\ UNCHANGED <<bootstraps, clean_up_calls, close_calls>>
  /\ UNCHANGED <<mcsVars, replayVars, signalVars, fuzzVars, trackVars,
                 statsVars, optVars, effVars, syncVars, runVars>>

\* simulation = replayer.simulate(): the replayer sets up the simulation of
\* this trial and replays the DAG; the local variable is bound when the call
\* returns. A SystemExit is caught (violations = []); another exception goes
\* on to the finally clause.
ReplayerSimulate ==
  /\ tpc = "simulate"
  /\ \E outcome \in {"returns", "SystemExit", "Exception"},
        set_up \in BOOLEAN :
       /\ outcome = "returns" => set_up
       /\ bootstraps' = bootstraps + (IF set_up THEN 1 ELSE 0)
       /\ simulation' = IF outcome = "returns" THEN "Simulation" ELSE None
       /\ tpc' = IF outcome = "returns" THEN "check" ELSE "finally"
       /\ pending_exception' = IF outcome = "Exception" THEN outcome ELSE None
  /\ UNCHANGED <<clean_up_calls, close_calls, trial_violations, trials>>
  /\ UNCHANGED <<mcsVars, replayVars, signalVars, fuzzVars, trackVars,
                 statsVars, optVars, effVars, syncVars, runVars>>

\* violations = self.invariant_check(simulation), after the replay: the
\* check returns its violations, or bails out with SystemExit, which is
\* caught (violations = []), or raises another exception.
InvariantCheck ==
  /\ tpc = "check"
  /\ tpc' = "finally"
  /\ \E outcome \in {"returns", "SystemExit", "Exception"},
        vs \in ViolationLists :
       /\ outcome # "returns" => vs = <<>>
       /\ trial_violations' = vs
       /\ pending_exception' = IF outcome = "Exception" THEN outcome ELSE None
  /\ UNCHANGED <<simulation, bootstraps, clean_up_calls, close_calls, trials>>
  /\ UNCHANGED <<mcsVars, replayVars, signalVars, fuzzVars, trackVars,
                 statsVars, optVars, effVars, syncVars, runVars>>

\* finally: input_logger.close(...); if simulation is not None:
\* simulation.clean_up(); then the result is returned or the exception
\* goes on.
PlayForwardFinally ==
  /\ tpc = "finally"
  /\ close_calls' = close_calls + 1
  /\ clean_up_calls' =
       IF simulation # None THEN clean_up_calls + 1 ELSE clean_up_calls
  /\ tpc' = IF pending_exception = None THEN "returned" ELSE "raised"
  /\ UNCHANGED <<simulation, bootstraps, trial_violations, pending_exception,
                 trials>>
  /\ UNCHANGED <<mcsVars, replayVars, signalVars, fuzzVars, trackVars,
                 statsVars, optVars, effVars, syncVars, runVars>>

NextTrial ==
  \/ PlayForward
  \/ ReplayerSimulate
  \/ InvariantCheck
  \/ PlayForwardFinally
InitTrial ==
  NoMCS /\ IdleReplay /\ IdleSignal /\ IdleFuzz /\ NewTracker /\ IdleStats
    /\ IdleOpt /\ IdleEfficient /\ IdleSync /\ NewCounters /\ IdleTrial
SpecTrial == InitTrial /\ [][NextTrial]_vars

\* ============================================================== claims
InDdmin ==
  pc \in {"ddmin", "subsets", "complements", "check_subset", "check_complement"}
Checking == pc \in {"check_subset", "check_complement"}
\* d is a subsequence of e (both are increasing sequences of labels).
Narrowed(d, e) == Range(d) \subseteq Range(e)

\* C1: shrink monotonicity. Across the recursive calls of _ddmin the inputs
\* of the current DAG never increase: every DAG the search moves to is a
\* narrowing of the DAG it replaces, with at most as many inputs, and the
\* granularity step leaves the DAG unchanged.
C1_ShrinkMonotonic ==
  [][InDdmin =>
       /\ Len(cur') <= Len(cur)
       /\ Narrowed(cur', cur)
       /\ (pc = "complements" /\ pc' = "ddmin" => cur' = cur)]_vars
\* A recursive call on a DAG with fewer inputs than the one simulate() began
\* with.
C1_Witness == pc = "ddmin" /\ Len(cur) < Len(dag) /\ Len(cur) > 0

\* The heads of the atoms of d: every input that is not a recovery (a
\* recovery belongs to the atom of its failure).
AtomHeads(d) == {x \in Range(d) : trace[x].cls # "Recovery"}
\* d without the atom of x.
WithoutAtom(d, x) == input_complement(d, <<x>>)
\* The deterministic oracle is known not to reproduce the bug on d.
NotReproducing(d) ==
  IF oracleMode = "required" THEN ~(required \subseteq Range(d))
  ELSE d \in DOMAIN verdict /\ ~verdict[d]
Reproducing(d) ==
  IF oracleMode = "required" THEN required \subseteq Range(d)
  ELSE d \in DOMAIN verdict /\ verdict[d]
Deterministic == oracleMode \in {"required", "deterministic"}

\* C2 as claimed: on return of _ddmin under a deterministic oracle, the
\* returned DAG without any one of its atoms does not reproduce the bug, the
\* empty input sequence included.
C2_OneMinimal ==
  (pc = "ddmin_done" /\ Deterministic) =>
    \A x \in AtomHeads(dag) : NotReproducing(WithoutAtom(dag, x))
\* C2 as amended: on return of _ddmin under a deterministic oracle, the
\* returned DAG without any one of its atoms does not reproduce the bug,
\* whenever inputs remain after the atom is dropped (the empty input sequence
\* is never replayed).
C2_OneMinimalNonEmpty ==
  (pc = "ddmin_done" /\ Deterministic) =>
    \A x \in AtomHeads(dag) :
      WithoutAtom(dag, x) # <<>> => NotReproducing(WithoutAtom(dag, x))
\* _ddmin returned a reproducing DAG of several atoms.
C2_Witness ==
  /\ pc = "ddmin_done"
  /\ oracleMode = "deterministic"
  /\ Cardinality(AtomHeads(dag)) >= 2
  /\ Reproducing(dag)

\* The required inputs with the failure each required recovery depends on.
RequiredClosure ==
  required \cup {MatchingFailure(r) : r \in {x \in required : trace[x].cls = "Recovery"}}
\* C3 as claimed: under an oracle that reproduces the bug exactly when every
\* input of the non-empty set `required` is present, simulate() on a trace
\* whose inputs include the required ones (each required recovery after its
\* failure) ends with a DAG whose inputs are exactly the required ones.
C3_ExactlyRequired ==
  (pc = "exited" /\ oracleMode = "required" /\ 0 \notin RequiredClosure) =>
    (exit_code = 0 /\ Range(dag) = required)
\* C3 as amended: under such an oracle, when every required recovery has its
\* failure in the trace, simulate() ends with a DAG whose inputs are the
\* required ones together with the failure of every required recovery.
C3_RequiredWithFailures ==
  (pc = "exited" /\ oracleMode = "required" /\ 0 \notin RequiredClosure) =>
    (exit_code = 0 /\ Range(dag) = RequiredClosure)
\* simulate() ended with fewer inputs than recorded, among them a required
\* recovery and its failure.
C3_Witness ==
  /\ pc = "exited"
  /\ oracleMode = "required"
  /\ 0 \notin RequiredClosure
  /\ Len(dag) < Len(trace)
  /\ \E r \in required : trace[r].cls = "Recovery"

\* C4 as claimed: during one search no input tuple is replayed twice.
C4_NoTupleReplayedTwice ==
  \A t \in DOMAIN replayed : replayed[t] <= 1
\* C4 as amended: during one search no input tuple is handed to the test
\* function _check_violation twice (a second presentation is skipped), so a
\* tuple is replayed at most no_violation_verification_runs times.
C4_NoTupleTestedTwice ==
  /\ \A t \in DOMAIN tested : tested[t] <= 1
  /\ \A t \in DOMAIN replayed : replayed[t] <= no_violation_verification_runs
\* A candidate was skipped as already computed after the same tuple had been
\* tested.
C4_Witness ==
  /\ pc = "complements"
  /\ idx > 0
  /\ idx <= Len(Subsets)
  /\ Count(tested, ComplementCandidate(cur, Subsets[idx])) = 1
  /\ Count(replayed, ComplementCandidate(cur, Subsets[idx])) >= 1

\* Every recovery of d comes after the failure it depends on, also in d.
Paired(d) ==
  \A i \in DOMAIN d :
    trace[d[i]].cls = "Recovery" =>
      \E j \in 1..(i - 1) : d[j] = MatchingFailure(d[i])
\* No recovery of the trace is in d without its failure.
NoLoneRecovery(d) ==
  \A r \in DOMAIN trace :
    (trace[r].cls = "Recovery" /\ MatchingFailure(r) \notin Range(d))
      => r \notin Range(d)
\* C5: atomic pairing. In every DAG the search tests or returns, every
\* recovery has its failure before it, and a dropped failure takes its
\* recovery along.
C5_AtomicPairing ==
  pc \notin {"new", "constructed", "ValueError"} =>
    \A d \in {dag, cur, cand} : Paired(d) /\ NoLoneRecovery(d)
\* The chunk of a recovery without its failure was pruned to the empty input
\* sequence and skipped: the lone recovery was never tested.
C5_Witness ==
  /\ pc = "subsets"
  /\ idx > 0
  /\ idx <= Len(Subsets)
  /\ \E r \in Range(Subsets[idx]) : trace[r].cls = "Recovery"
  /\ SubsetCandidate(cur, Subsets[idx]) = <<>>

\* C6: replay() reports the bug as found exactly when the bug signature is an
\* element of the violation list the trial returned.
C6_BugFoundIffSignature ==
  subsequence_id > 0 =>
    (bug_found <=> \E i \in DOMAIN violations : violations[i] = bug_signature)
\* A trial returned a non-empty list without the signature: a negative result.
C6_Witness ==
  /\ subsequence_id > 0
  /\ violations # <<>>
  /\ ~bug_found

\* C7: when no run of the reproducibility pass reproduces the bug, the driver
\* exits with code 5 and no pruning trial has been run; a trial of _ddmin
\* that does not reproduce the bug leaves the DAG as it is and the search
\* goes on.
C7_ExitFiveBeforePruning ==
  [][/\ (pc = "reproducibility" /\ ~bug_found'
           /\ attempt + 1 >= no_violation_verification_runs)
        => (pc' = "exited" /\ exit_code' = 5
              /\ tested' = <<>> /\ replayed' = <<>>)
     /\ (pc' = "exited" /\ exit_code' = 5) => pc = "reproducibility"
     /\ (Checking /\ ~bug_found')
        => (InDdmin' /\ cur' = cur /\ exit_code' = -1)]_vars
\* The driver exited with code 5.
C7_Witness == pc = "exited" /\ exit_code = 5 /\ subsequence_id > 0

\* C9: the search never begins on a DAG without an InvariantViolation:
\* construction fails and no replay is run.
C9_NoSearchWithoutViolation ==
  get_last_invariant_violation(internal_events) = NoEvent =>
    (pc \in {"new", "ValueError"} /\ subsequence_id = 0 /\ replayed = <<>>)
\* Construction failed.
C9_Witness == pc = "ValueError" /\ Len(trace) > 0

\* C8 as claimed: on SIGINT, SIGTERM or SIGQUIT the handler tears down the
\* current simulation (when one exists), and the process then exits with
\* code 13: a process whose handler ran ends with status 13.
C8_SignalExitsThirteen ==
  [][/\ (signals' # signals /\ current_simulation # None)
          => clean_ups' = clean_ups + 1
     /\ (spc' = "exited" /\ signals' # <<>>) => status' = 13]_vars
\* The handler ran with a current simulation and the process exited.
C8_Witness ==
  /\ spc = "exited"
  /\ signals # <<>>
  /\ current_simulation # None
  /\ clean_ups > 0

\* SyncTime order: by seconds, then by microseconds.
TimeLeq(a, b) ==
  \/ a.seconds < b.seconds
  \/ a.seconds = b.seconds /\ a.microSeconds <= b.microSeconds
NonDecreasing(ts) ==
  \A i, j \in DOMAIN ts : i <= j => TimeLeq(ts[i], ts[j])
\* C10: interpolated time monotonicity. Within one replay of a DAG whose event
\* times are non-decreasing, successive get_interpolated_time() calls return
\* non-decreasing values.
C10_InterpolatedTimeMonotone ==
  NonDecreasing([i \in DOMAIN events |-> events[i].time])
    => NonDecreasing(returned_times)
\* Calls returned different times, one of them clamped to microsecond 0, in
\* a replay of a DAG with non-decreasing times.
C10_Witness ==
  /\ NonDecreasing([i \in DOMAIN events |-> events[i].time])
  /\ Len(returned_times) >= 2
  /\ returned_times[1] # returned_times[Len(returned_times)]
  /\ \E i \in DOMAIN events :
       /\ events[i].time.microSeconds \in 1..(time_epsilon_microseconds - 1)
       /\ i \in Range(scheduled)

\* SyncTime strict order.
TimeLess(a, b) == TimeLeq(a, b) /\ a # b
\* C11 as claimed: every value get_interpolated_time() returns during a
\* replay (of a DAG with non-decreasing event times) is strictly less than
\* the time of the next event that is not yet replayed, whatever its
\* microseconds, below 500 and 0 included.
C11_StrictlyBeforeLandmark ==
  [][(/\ returned_times' # returned_times
      /\ NonDecreasing([i \in DOMAIN events |-> events[i].time])
      /\ Len(scheduled) < Len(events))
       => TimeLess(returned_times'[Len(returned_times')],
                   events[Len(scheduled) + 1].time)]_vars
\* A call returned the time of a landmark whose microseconds are 0, while the
\* landmark was not yet replayed.
C11_Witness ==
  /\ NonDecreasing([i \in DOMAIN events |-> events[i].time])
  /\ Len(scheduled) < Len(events)
  /\ returned_times # <<>>
  /\ events[Len(scheduled) + 1].time.microSeconds = 0
  /\ returned_times[Len(returned_times)] = events[Len(scheduled) + 1].time

\* C15: within a replay, after bootstrap every event of the DAG is handed to
\* the scheduler exactly once and in DAG order (nothing is scheduled before
\* bootstrap, all events are when the loop is done), and the interpolated
\* time is set from an event before that event is scheduled.
C15_DispatchInDagOrder ==
  [][/\ scheduled' = [i \in 1..Len(scheduled') |-> i]
     /\ (rpc' \in {"new", "constructed", "IndexError"} => scheduled' = <<>>)
     /\ (rpc' = "done" => Len(scheduled') = Len(events))
     /\ (scheduled' # scheduled =>
           interpolated_time =
             compute_interpolated_time(events[scheduled'[Len(scheduled')]]))]_vars
\* A replay of several events with different times is done.
C15_Witness ==
  /\ rpc = "done"
  /\ Len(scheduled) >= 2
  /\ events[1].time # events[2].time

\* C12: two fuzz runs with the same seed, parameters and initial topology
\* emit the same sequence of input events, the target switch of a host
\* migration included.
C12_SameSeedSameEvents ==
  (run = 2 /\ fpc = "done") => input_log = first_log
\* Both runs finished and both migrated the host, to different switches.
C12_Witness ==
  /\ run = 2
  /\ fpc = "done"
  /\ \E i \in DOMAIN input_log :
       /\ i \in DOMAIN first_log
       /\ input_log[i][1] = "HostMigration"
       /\ first_log[i][1] = "HostMigration"
       /\ input_log[i] # first_log[i]
       /\ SubSeq(input_log, 1, i - 1) = SubSeq(first_log, 1, i - 1)

\* C13: in a fuzz round no switch, link or controller both goes down and is
\* brought back.
C13_OneStateChangePerRound == failed_in_round \cap recovered_in_round = {}
\* In one round a switch went down while another, down since an earlier
\* round, was brought back.
C13_Witness ==
  \E a \in failed_in_round \cap Range(Switches) :
    \E b \in recovered_in_round \cap Range(Switches) : a # b

\* The order of the steps of a round as the specification lists them.
StepsInOrder ==
  <<"check_dataplane", "check_tcp_connections", "check_message_receipts",
    "check_switch_crashes", "check_link_failures", "fuzz_traffic",
    "check_controllers", "check_migrations">>
\* C14: the steps of a round run one after the other in the order
\* dataplane, control channels, message receipts, switch crashes and
\* recoveries, link failures and recoveries, traffic, controllers, host
\* migration; the round ends only after all of them.
C14_FixedStepOrder ==
  /\ steps_done = SubSeq(StepsInOrder, 1, Len(steps_done))
  /\ fpc = "round_end" => steps_done = StepsInOrder
  /\ \A i \in DOMAIN StepsInOrder :
       fpc = StepsInOrder[i] => Len(steps_done) = i - 1
\* A second round has run all its steps, the first having logged events.
C14_Witness ==
  /\ fpc = "round_end"
  /\ logical_time = 2
  /\ Len(input_log) >= 3
  /\ steps_done = StepsInOrder

\* The size of the smallest intermediate MCS dumped so far.
RunningMinimum(written) ==
  IF written = <<>> THEN maxint
  ELSE CHOOSE m \in {written[i].size : i \in DOMAIN written} :
         \A i \in DOMAIN written : m <= written[i].size
\* A candidate of _ddmin reproduces the bug in this step.
Reproduces == pc \in {"check_subset", "check_complement"} /\ bug_found'
\* C16: an intermediate MCS is dumped exactly when a candidate of _ddmin
\* reproduces the bug and is smaller than every DAG dumped before; each dump
\* goes to a directory with a counter above every earlier one, and the
\* running minimum never grows.
C16_DumpOnNewMinimum ==
  [][/\ intermcs' # intermcs <=>
          (Reproduces /\ DagLen(cand) < RunningMinimum(intermcs))
     /\ intermcs' # intermcs =>
          /\ Len(intermcs') = Len(intermcs) + 1
          /\ SubSeq(intermcs', 1, Len(intermcs)) = intermcs
          /\ intermcs'[Len(intermcs')].dag = cand
          /\ \A i \in DOMAIN intermcs :
               intermcs[i].count < intermcs'[Len(intermcs')].count
     /\ RunningMinimum(intermcs') <= RunningMinimum(intermcs)
     /\ min_size' = RunningMinimum(intermcs')]_vars
\* Two intermediate MCSes were dumped, the second smaller than the first.
C16_Witness ==
  /\ Len(intermcs) >= 2
  /\ intermcs[2].size < intermcs[1].size
  /\ intermcs[2].count > intermcs[1].count

\* The parent merges the child's fields in this step.
Merges == stpc = "child" /\ ~ignore_runtime_stats /\ stpc' # "child"
WithoutClass(d, event_type) ==
  SelectSeq(d, LAMBDA e : trace[e].cls # event_type)
\* C18: for each input class in turn the pre-optimization replays the
\* current DAG with all inputs of that class removed and all others kept,
\* and makes it the current DAG exactly when the replay reproduces the bug.
C18_TriesDagWithoutClass ==
  [][opt_log' # opt_log =>
       LET try == opt_log'[Len(opt_log')]
       IN  /\ try.pruned_dag = WithoutClass(dag, try.event_type)
           /\ try.bug_found => dag' = try.pruned_dag
           /\ ~try.bug_found => dag' = dag]_vars
\* The replay of a DAG holding the inputs of one class alone reproduced the
\* bug and the inputs of the other classes were dropped with it.
C18_Witness ==
  \E i \in DOMAIN opt_log :
    /\ opt_log[i].bug_found
    /\ opt_log[i].pruned_dag # <<>>
    /\ \A e \in Range(opt_log[i].pruned_dag) :
         trace[e].cls = opt_log[i].event_type
    /\ \E e \in Range(opt_log[i].dag) : trace[e].cls # opt_log[i].event_type
    /\ pc = "ddmin"
    /\ Range(cur) \subseteq Range(opt_log[i].pruned_dag)

\* Both finders have returned, and the DAG they were given reproduces the bug.
BothReturned ==
  /\ eff_pc = "returned"
  /\ check_violation(mark_invalid_input_sequences([i \in 1..Len(trace) |-> i]))
\* C19: under an oracle that always answers the same, the DAG
\* EfficientMCSFinder returns reproduces the bug, is 1-minimal over its
\* atomic inputs, and has the inputs of the DAG MCSFinder returns.
C19_SameResultAsMCSFinder ==
  BothReturned =>
    /\ check_violation(efficient_dag)
    /\ \A i \in DOMAIN atomic_input_events(efficient_dag) :
         ~check_violation(SelectSeq(efficient_dag,
            LAMBDA x : x \notin Range(atomic_input_events(efficient_dag)[i])))
    /\ Range(efficient_dag) = Range(dag)
\* Both have returned on a DAG with a failure and its recovery, and
\* MCSFinder has split the pair that EfficientMCSFinder kept whole.
C19_Witness ==
  /\ BothReturned
  /\ \E r \in Range(efficient_dag) :
       /\ trace[r].cls = "Recovery"
       /\ MatchingFailure(r) \in Range(dag)
       /\ r \notin Range(dag)

\* The last call made to the sync callback.
LastCall == sync_calls[Len(sync_calls)]
\* The step is a deterministic-value request for a name that is not
\* gettimeofday.
UnsupportedRequest ==
  /\ Len(sync_calls') = Len(sync_calls) + 1
  /\ sync_calls'[Len(sync_calls')].op = "get_deterministic_value"
  /\ sync_calls'[Len(sync_calls')].arg.name # "gettimeofday"
\* C21: a deterministic-value request for a name other than gettimeofday
\* raises the unsupported-deterministic-value error in replay and in
\* recording mode; it returns no value, sends no response to the controller
\* and leaves the pending state changes as they were.
C21_UnsupportedNameFails ==
  [][UnsupportedRequest =>
       /\ raised' = "ValueError: unsupported deterministic value"
       /\ det_value' = det_value
       /\ sent' = sent
       /\ _pending_state_changes' = _pending_state_changes]_vars
\* A request for an unsupported name has failed in replay mode while a state
\* change was pending and an earlier gettimeofday request was answered.
C21_Witness ==
  /\ state_master = "ReplaySyncCallback"
  /\ sync_calls # <<>>
  /\ LastCall.op = "get_deterministic_value"
  /\ LastCall.arg.name = "random"
  /\ raised # None
  /\ DOMAIN _pending_state_changes # {}
  /\ Len(sent) = 1

\* The state-change reports made so far, and the gettimeofday requests.
StateChangeReports == SelectSeq(sync_calls, LAMBDA c : c.op = "state_change")
TimeRequests ==
  SelectSeq(sync_calls,
            LAMBDA c : c.op = "get_deterministic_value"
                         /\ c.arg.name = "gettimeofday")
\* C22: in recording mode with an input logger, every state-change report
\* is appended to the input log, and every gettimeofday request is answered
\* with the wall-clock now of its call and is appended to the input log too.
C22_RecordingLogsEverything ==
  (state_master = "RecordingSyncCallback" /\ input_logger # None) =>
    /\ Len(det_value) = Len(TimeRequests)
    /\ \A i \in DOMAIN det_value : det_value[i] = TimeRequests[i].arg.now
    /\ Len(logged_events) = Len(StateChangeReports) + Len(TimeRequests)
\* A gettimeofday request was answered in recording mode after a state
\* change was reported, and the input log holds the state change alone.
C22_Witness ==
  /\ state_master = "RecordingSyncCallback"
  /\ input_logger # None
  /\ Len(StateChangeReports) = 1
  /\ Len(TimeRequests) = 1
  /\ Len(det_value) = 1
  /\ Len(logged_events) = 1

\* The replay event _pass_through_handler records for a state change.
PassedThroughEvent(pending_state_change) ==
  ControllerStateChange(<<pending_state_change.controller_id,
                          pending_state_change.time,
                          pending_state_change.fingerprint,
                          pending_state_change.name,
                          pending_state_change.value>>)
\* The state changes reported since the last set_pass_through, as the events
\* recorded for them, in the order of their reports.
ReportedSinceSet ==
  LET sets == {i \in DOMAIN sync_calls : sync_calls[i].op = "set_pass_through"}
      last == CHOOSE i \in sets : \A j \in sets : j <= i
      since == SelectSeq(SubSeq(sync_calls, last + 1, Len(sync_calls)),
                         LAMBDA c : c.op = "state_change")
  IN  [i \in DOMAIN since |-> PassedThroughEvent(since[i].arg)]
\* The step is the call op on the ReplaySyncCallback.
ReplayCallStep(op) ==
  /\ state_master = "ReplaySyncCallback"
  /\ Len(sync_calls') = Len(sync_calls) + 1
  /\ sync_calls'[Len(sync_calls')].op = op
\* C23: while pass-through is set, a reported state change is not left in
\* the pending buffer and is recorded as a passed-through event;
\* unset_pass_through returns the state changes passed through since
\* set_pass_through, in the order they arrived; with pass-through unset a
\* reported state change is buffered and not passed through.
C23_PassThroughWindow ==
  [][/\ (ReplayCallStep("state_change") /\ listening) =>
          /\ _pending_state_changes' = _pending_state_changes
          /\ passed_through_events' =
               Append(passed_through_events,
                      PassedThroughEvent(sync_calls'[Len(sync_calls')].arg))
     /\ ReplayCallStep("unset_pass_through") =>
          /\ SelectSeq(observed_events',
                       LAMBDA e : e.cls = "ControllerStateChange")
               = ReportedSinceSet
          /\ ~listening'
     /\ (ReplayCallStep("state_change") /\ ~listening) =>
          /\ Count(_pending_state_changes', sync_calls'[Len(sync_calls')].arg)
               = Count(_pending_state_changes,
                       sync_calls'[Len(sync_calls')].arg) + 1
          /\ passed_through_events' = passed_through_events]_vars
\* A state change was passed through during the window and returned by
\* unset_pass_through, and a state change reported after it is pending.
C23_Witness ==
  /\ state_master = "ReplaySyncCallback"
  /\ Len(sync_calls) = 4
  /\ sync_calls[1].op = "set_pass_through"
  /\ sync_calls[2].op = "state_change"
  /\ sync_calls[3].op = "unset_pass_through"
  /\ sync_calls[4].op = "state_change"
  /\ observed_events # <<>>
  /\ observed_events[Len(observed_events)] = PassedThroughEvent(sync_calls[2].arg)
  /\ Count(_pending_state_changes, sync_calls[4].arg) = 1

\* The step is check_dataplane of a round.
DataplaneStep ==
  fpc = "check_dataplane" /\ fpc' = AfterStep("check_dataplane")
\* The entries the step has appended to the input log.
Appended == SubSeq(input_log', Len(input_log) + 1, Len(input_log'))
\* C24 as claimed: check_dataplane logs one input event for every queued
\* dataplane event it decides on, whether it delays, drops or permits it.
C24_EveryDecisionLogged ==
  [][DataplaneStep => Len(Appended) = queued]_vars
\* C24, amended: check_dataplane logs a DataplaneDrop or a DataplanePermit
\* for every event it drops or permits and nothing else; the events it
\* delays stay queued and are not logged.
C24_DropsAndPermitsLogged ==
  [][DataplaneStep =>
       /\ Len(Appended) + queued' = queued
       /\ \A i \in DOMAIN Appended :
            Appended[i][1] \in {"DataplaneDrop", "DataplanePermit"}]_vars
\* check_dataplane has just delayed the queued event, and the input log has
\* no dataplane entry.
C24_Witness ==
  /\ fpc = "check_tcp_connections"
  /\ steps_done # <<>>
  /\ steps_done[Len(steps_done)] = "check_dataplane"
  /\ queued > 0
  /\ \A i \in DOMAIN input_log :
       input_log[i][1] \notin {"DataplaneDrop", "DataplanePermit"}

\* No input of the trace is a failure or a recovery: candidates are not
\* pruned any further.
NoPairs == \A i \in DOMAIN trace : trace[i].cls = "Other"
\* C25: when the test of a subset reproduces the bug, _ddmin goes on with
\* the subset's DAG as its DAG and the split factor 2; the candidate under
\* test is always taken from the current DAG, so no subset or complement of
\* the old DAG is tested afterwards.
C25_SubsetReproduces ==
  [][/\ (pc = "check_subset" /\ bug_found') =>
          /\ pc' = "ddmin"
          /\ cur' = cand
          /\ split_ways' = 2
     /\ pc' = "check_subset" =>
          /\ idx' < Len(split_list(cur', split_ways'))
          /\ cand' = input_subset(cur', split_list(cur', split_ways')[idx' + 1])
     /\ pc' = "check_complement" =>
          /\ idx' < Len(split_list(cur', split_ways'))
          /\ cand' =
               input_complement(cur', split_list(cur', split_ways')[idx' + 1])
    ]_vars
\* The second of three inputs has reproduced the bug as a subset (a
\* complement of one input is either presented before as a subset or has
\* two inputs): the search is on that input with the split factor 2.
C25_Witness ==
  /\ NoPairs
  /\ pc = "ddmin"
  /\ bug_found
  /\ cur = cand
  /\ cur = <<2>>
  /\ Len(dag) = 3
  /\ split_ways = 2
  /\ <<1, 3>> \notin precompute_cache

\* C26: a complement is tested only when every subset of the partition was
\* presented without reproducing the bug; when its test reproduces the bug,
\* _ddmin goes on with the complement's DAG and the split factor
\* max(n - 1, 2).
C26_ComplementReproduces ==
  [][(pc = "check_complement" /\ bug_found') =>
       /\ \A k \in DOMAIN Subsets :
            input_subset(cur, Subsets[k]) \in precompute_cache
       /\ pc' = "ddmin"
       /\ cur' = cand
       /\ split_ways' = Max(split_ways - 1, 2)]_vars
\* The complement of the second of three inputs has reproduced the bug: the
\* search is on the first and the third input with the split factor 2.
C26_Witness ==
  /\ NoPairs
  /\ pc = "ddmin"
  /\ bug_found
  /\ cur = cand
  /\ cur = <<1, 3>>
  /\ split_ways = 2

\* The partition of the current DAG is in force.
Partitioning ==
  pc \in {"subsets", "check_subset", "complements", "check_complement"}
\* C27: when neither a subset nor a complement has reproduced the bug,
\* _ddmin repeats on the same DAG with the split factor min(|D|, 2n) if n is
\* less than the number of inputs of D, and returns D otherwise; the split
\* factor of a partition never exceeds the number of inputs partitioned.
C27_GranularityOrReturn ==
  [][/\ (pc = "complements" /\ idx = Len(Subsets)) =>
          IF split_ways < Len(cur)
            THEN /\ pc' = "ddmin"
                 /\ cur' = cur
                 /\ split_ways' = Min(Len(cur), 2 * split_ways)
            ELSE /\ pc' = "ddmin_done"
                 /\ dag' = cur
     /\ Partitioning' => split_ways' <= Len(cur')]_vars
\* The split factor of a DAG of three inputs has gone from 2 to 3, not to 4.
C27_Witness ==
  /\ pc = "subsets"
  /\ Len(cur) = 3
  /\ split_ways = 3

\* C28 as claimed: the subsets of a partition keep a failure and its recovery
\* together.
C28_PairsInOneSubset ==
  Partitioning =>
    \A r \in Range(cur) :
      (trace[r].cls = "Recovery" /\ MatchingFailure(r) \in Range(cur)) =>
        \E k \in DOMAIN Subsets :
          r \in Range(Subsets[k]) /\ MatchingFailure(r) \in Range(Subsets[k])
\* The failure and its recovery are the two subsets of the partition.
C28_Witness ==
  /\ Partitioning
  /\ Len(cur) = 2
  /\ trace[cur[1]].cls = "Failure"
  /\ trace[cur[2]].cls = "Recovery"
  /\ MatchingFailure(cur[2]) = cur[1]
  /\ Subsets = <<<<cur[1]>>, <<cur[2]>>>>

\* The candidate the loop under way examines next.
NextCandidate ==
  IF pc = "subsets" THEN SubsetCandidate(cur, Subsets[idx + 1])
  ELSE ComplementCandidate(cur, Subsets[idx + 1])
\* C29: a subset or a complement that is empty after dependency pruning is
\* skipped: no trial is run for it, no error is raised, and the loop goes on
\* with the next candidate.
C29_EmptyCandidateSkipped ==
  [][(/\ pc \in {"subsets", "complements"}
      /\ idx < Len(Subsets)
      /\ NextCandidate = <<>>) =>
       /\ pc' = pc
       /\ idx' = idx + 1
       /\ subsequence_id' = subsequence_id
       /\ replayed' = replayed
       /\ tested' = tested]_vars
\* The complement loop has just passed a complement that is empty after
\* pruning: a failure was taken out and only its recovery was left.
C29_Witness ==
  /\ pc = "complements"
  /\ idx > 0
  /\ ComplementCandidate(cur, Subsets[idx]) = <<>>
  /\ \E f \in Range(Subsets[idx]) : trace[f].cls = "Failure"

\* The places where a candidate is replayed up to
\* no_violation_verification_runs times, and the candidate replayed there.
VerificationPcs == {"reproducibility", "check_subset", "check_complement"}
Verified == IF pc = "reproducibility" THEN dag ELSE cand
\* C30: a candidate is replayed at most no_violation_verification_runs times
\* per presentation, counted from zero; the first replay that reproduces the
\* bug ends the runs with a positive result, a failed replay is followed by
\* another one while runs are left, and the result is negative only after
\* the last run failed. The reproducibility pass does the same with the
\* whole DAG, its negative result being exit code 5.
C30_VerificationRuns ==
  [][/\ (pc \notin VerificationPcs /\ pc' \in VerificationPcs) =>
          attempt' = 0
     /\ pc \in VerificationPcs =>
          /\ attempt < no_violation_verification_runs
          /\ subsequence_id' = subsequence_id + 1
          /\ IF bug_found'
             THEN pc' = "ddmin" /\ cur' = Verified
             ELSE IF attempt + 1 < no_violation_verification_runs
             THEN pc' = pc /\ attempt' = attempt + 1 /\ cur' = cur
             ELSE IF pc = "reproducibility"
             THEN pc' = "exited" /\ exit_code' = 5
             ELSE /\ pc' = (IF pc = "check_subset" THEN "subsets"
                            ELSE "complements")
                  /\ idx' = idx + 1
                  /\ cur' = cur]_vars
\* Under the flaky oracle a candidate failed its first replay and
\* reproduced the bug in the second: the search has just recursed on it.
C30_Witness ==
  /\ oracleMode = "flaky"
  /\ pc = "ddmin"
  /\ attempt = 1
  /\ bug_found
  /\ cur = cand
  /\ Len(cur) < Len(dag)
  /\ Count(replayed, cand) = 2

\* topology.ok_to_send for the events queued in this model.
OkToSend == live_links = Range(Links)
\* The decision for one event whose first roll is r1 and second roll r2.
DataplaneDecision(r1, r2) ==
  IF r1 < params.dataplane_delay_rate THEN "delay"
  ELSE IF r2 < params.dataplane_drop_rate \/ ~OkToSend THEN "DataplaneDrop"
  ELSE "DataplanePermit"
\* C31: check_dataplane applies exactly one of delay, drop, permit to each
\* queued event (a delayed event stays queued, a dropped or permitted one
\* leaves the queue with its log entry); with one event queued the decision
\* is delay when the first roll is below dataplane_delay_rate, otherwise
\* drop when the second roll is below dataplane_drop_rate or the link is
\* down, otherwise permit; nothing is permitted while it is not ok to send.
C31_OneDecisionPerEvent ==
  [][DataplaneStep =>
       /\ queued' + Len(Appended) = queued
       /\ \A i \in DOMAIN Appended :
            /\ Appended[i][1] \in {"DataplaneDrop", "DataplanePermit"}
            /\ Appended[i][1] = "DataplanePermit" => OkToSend
       /\ queued = 1 =>
            LET r1 == RandomValue(NextRandom(rng))
                r2 == RandomValue(NextRandom(NextRandom(rng)))
                decision == DataplaneDecision(r1, r2)
            IN  IF decision = "delay"
                  THEN queued' = 1 /\ Appended = <<>>
                  ELSE queued' = 0 /\ Appended = <<<<decision, "dp">>>>]_vars
\* check_dataplane has just dropped the one queued event because the link
\* is down: neither roll was below its rate.
C31_Witness ==
  /\ fpc = "check_tcp_connections"
  /\ steps_done = <<"check_dataplane">>
  /\ ~OkToSend
  /\ queued = 0
  /\ Len(input_log) > 0
  /\ input_log[Len(input_log)][1] = "DataplaneDrop"
  /\ RandomValue(rng) >= params.dataplane_drop_rate

\* C32: within a run logical time changes only when a round is entered, by
\* exactly 1; the loop is left when steps rounds have run, or at the end of
\* a round whose invariant check ran, found a violation and halts, or by an
\* exception, and in no other way; when the loop is over, whichever way it
\* was left, the input logger has been closed.
C32_LoopRoundsAndClose ==
  [][/\ (logical_time' # logical_time /\ run' = run) =>
          /\ logical_time' = logical_time + 1
          /\ fpc = "loop" /\ fpc' = trigger_events[1]
     /\ logical_time' <= steps
     /\ fpc = "loop" =>
          (fpc' = "finally" <=> logical_time = steps)
     /\ (fpc = "round_end" /\ fpc' # "finally_raising") =>
          (fpc' = "finally" <=>
             /\ check_interval # 0
             /\ logical_time % check_interval = 0
             /\ logical_time \in violating_rounds
             /\ halt_on_violation)
     /\ (fpc \in Range(trigger_events) /\ fpc' # "finally_raising") =>
          fpc' \in Range(trigger_events) \cup {"round_end"}
     /\ fpc' \in {"done", "raised"} => logger_closed']_vars
\* The loop was left at a violation before steps rounds had run, and the
\* logger is closed.
C32_Witness ==
  /\ fpc = "done"
  /\ run = 1
  /\ logical_time < steps
  /\ logger_closed

\* The PendingStateChange values of this model.
PendingStateChanges ==
  {PendingStateChange("c1", m.time, m.fingerPrint, m.name, m.value) :
     m \in StateChangeMessages}
RECURSIVE Tally(_, _)
\* The history of calls, counted for p since the last flush: the reports of
\* p, the garbage-collections of p (the one _pass_through_handler makes for
\* a report included), and the garbage-collections of p that found an
\* occurrence to remove.
Tally(calls, p) ==
  IF calls = <<>>
    THEN [reports |-> 0, gcs |-> 0, removed |-> 0, listening |-> FALSE]
    ELSE
      LET before == Tally(SubSeq(calls, 1, Len(calls) - 1), p)
          call == calls[Len(calls)]
          held == before.reports - before.removed
      IN  IF call.op = "flush"
            THEN [before EXCEPT !.reports = 0, !.gcs = 0, !.removed = 0]
          ELSE IF call.op = "set_pass_through"
            THEN [before EXCEPT !.listening = TRUE]
          ELSE IF call.op = "unset_pass_through"
            THEN [before EXCEPT !.listening = FALSE]
          ELSE IF call.op = "state_change" /\ call.arg = p
            THEN IF before.listening
                   THEN [before EXCEPT !.reports = @ + 1, !.gcs = @ + 1,
                                       !.removed = @ + 1]
                   ELSE [before EXCEPT !.reports = @ + 1]
          ELSE IF call.op = "gc_pending_state_change" /\ call.arg = p
            THEN [before EXCEPT !.gcs = @ + 1,
                                !.removed = @ + (IF held > 0 THEN 1 ELSE 0)]
          ELSE before
\* C33 as stated: in replay mode state_change_pending(p) is true exactly
\* when the reports of p since the last flush outnumber the
\* garbage-collections of p.
C33_PendingIffReportsOutnumberGcs ==
  state_master = "ReplaySyncCallback" =>
    \A p \in PendingStateChanges :
      state_change_pending(_pending_state_changes, p)
        <=> Tally(sync_calls, p).reports > Tally(sync_calls, p).gcs
\* C33, amended: the pending state changes are a multiset in which a
\* garbage-collection removes one occurrence when there is one and nothing
\* otherwise; the count of p is the reports of p since the last flush less
\* the garbage-collections of p that removed an occurrence, and
\* state_change_pending(p) is true exactly when that count is positive.
C33_PendingIffOccurrenceLeft ==
  state_master = "ReplaySyncCallback" =>
    \A p \in PendingStateChanges :
      LET t == Tally(sync_calls, p)
      IN  /\ Count(_pending_state_changes, p) = t.reports - t.removed
          /\ state_change_pending(_pending_state_changes, p)
               <=> t.reports > t.removed
\* A state change was garbage-collected before it was reported, and is
\* pending after its report.
C33_Witness ==
  /\ state_master = "ReplaySyncCallback"
  /\ Len(sync_calls) = 2
  /\ sync_calls[1].op = "gc_pending_state_change"
  /\ sync_calls[2].op = "state_change"
  /\ sync_calls[2].arg = sync_calls[1].arg
  /\ state_change_pending(_pending_state_changes, sync_calls[2].arg)

\* A trial is over: play_forward has returned or has let an exception out.
TrialOver == tpc \in {"returned", "raised"}
\* C34: when a trial is over, by normal completion, after an invariant
\* check that raised SystemExit or by an exception raised while the replay
\* was running, every simulation set up for a trial has been torn down with
\* clean_up and every trial's input logger has been closed.
C34_TornDownOnEveryExit ==
  TrialOver => clean_up_calls = bootstraps /\ close_calls = trials
\* An exception raised while the replay was running has ended the first
\* trial, whose simulation had been set up.
C34_Witness ==
  /\ tpc = "raised"
  /\ trials = 1
  /\ bootstraps = 1
  /\ simulation = None
  /\ close_calls = 1

\* The places of simulate and _ddmin where replay() is called.
ReplayPcs ==
  VerificationPcs \cup {"ddmin_done", "final_no_timeouts"}
\* C35: the parent starts with subsequence id 0; every replay trial gets the
\* id of the trial before plus one, so the ids 1, 2, ... are given in order
\* and none twice; total_replays of the runtime stats and the counter of the
\* replay directories advance by exactly one with every trial and with
\* nothing else.
C35_OneIdPerTrial ==
  [][/\ pc \in ReplayPcs =>
          /\ subsequence_id' = subsequence_id + 1
          /\ total_replays' = total_replays + 1
          /\ replay_dir_count' = replay_dir_count + 1
     /\ pc \notin ReplayPcs =>
          UNCHANGED <<subsequence_id, total_replays, replay_dir_count>>
     /\ total_replays' = subsequence_id'
     /\ replay_dir_count' = subsequence_id']_vars
\* Three trials were run: a run of the reproducibility pass and two trials
\* of the search.
C35_Witness ==
  /\ subsequence_id = 3
  /\ total_replays = 3
  /\ replay_dir_count = 3
  /\ Cardinality(DOMAIN replayed) = 2

RECURSIVE Total(_)
\* The sum of the counts of a counter.
Total(c) ==
  IF DOMAIN c = {} THEN 0
  ELSE LET x == CHOOSE y \in DOMAIN c : TRUE
       IN  c[x] + Total([y \in DOMAIN c \ {x} |-> c[y]])
\* The trials the search has run: the replays of _check_violation.
DdminTrials == Total(replayed)
\* The subsequence ids of those trials: the search runs the last trials
\* before it returns.
DdminTrialIds == (subsequence_id - DdminTrials + 1)..subsequence_id
\* C36: after a ddmin search iteration_size holds one entry per ddmin trial,
\* keyed by the subsequence id of the trial, and its value is a number of
\* inputs that remained at a trial: between the size of the result and the
\* size of the DAG the search began with.
C36_IterationSizePerTrial ==
  pc = "ddmin_done" =>
    /\ DdminTrialIds \subseteq DOMAIN iteration_size
    /\ \A id \in DdminTrialIds :
         iteration_size[id] \in Len(dag)..(Len(dag) + total_inputs_pruned)
\* A search of two trials or more has returned, and iteration_size has the
\* one key 0, the subsequence id of the parent.
C36_Witness ==
  /\ pc = "ddmin_done"
  /\ DdminTrials >= 2
  /\ DOMAIN iteration_size = {0}
  /\ iteration_size[0] = Len(dag)

\* ------------------------------------------------------ termination of _ddmin
\* MCSFinder runs in one thread, which goes on with its next statement as
\* long as it has one: every replay returns its violation list.
SpecLive == Init /\ [][Next]_vars /\ WF_<<pc, idx, subsequence_id>>(Next)

\* A recursive call of _ddmin: the step that goes back to the entry.
RecursiveCall == pc # "ddmin" /\ pc' = "ddmin" /\ pc \in {"check_subset", "check_complement", "complements"}
\* C37: _ddmin terminates for every finite DAG and every oracle: each
\* recursive call strictly reduces the number of inputs of the DAG or, on the
\* same DAG, strictly increases the split factor, to the number of inputs at
\* most; and every call of _ddmin leads to the return of the search.
C37_DdminTerminates ==
  /\ [][RecursiveCall =>
          \/ Len(cur') < Len(cur)
          \/ /\ cur' = cur
             /\ split_ways' > split_ways
             /\ split_ways' <= Len(cur)]_vars
  /\ (pc = "ddmin") ~> (pc = "ddmin_done")
\* A search with a flaky oracle has returned the complement <<2, 3>>, which
\* it met after it had increased the granularity of <<1, 2, 3>> to three.
C37_Witness ==
  /\ pc = "ddmin_done"
  /\ oracleMode = "flaky"
  /\ Len(trace) = 3
  /\ dag = <<2, 3>>
  /\ <<1>> \in DOMAIN tested
  /\ total_inputs_pruned = 1

\* The candidates of the subset loop of the current call, in partition order.
SubsetCandidates ==
  [i \in 1..Len(Subsets) |-> SubsetCandidate(cur, Subsets[i])]
\* The search is in the complement loop of the current call.
InComplements == pc \in {"complements", "check_complement"}
\* C38: in every call of _ddmin the subsets of the partition are examined in
\* partition order, one after the other, before any complement: the
\* complement loop is entered from the end of the subset loop only, and
\* while the search is in it every subset of the partition has been examined
\* (it is in the cache) and none of them is the DAG of a recursive call.
C38_SubsetsBeforeComplements ==
  /\ [](InComplements =>
          \A i \in 1..Len(Subsets) :
            already_done(precompute_cache, SubsetCandidates[i]))
  /\ [][/\ (pc = "subsets" /\ pc' = "check_subset")
            => (cand' = SubsetCandidates[idx + 1] /\ idx' = idx)
        /\ (pc = "subsets" /\ pc' = "subsets") => idx' = idx + 1
        /\ (pc = "check_subset" /\ pc' = "subsets") => idx' = idx + 1
        /\ (InComplements' /\ ~InComplements)
            => (pc = "subsets" /\ idx = Len(Subsets) /\ pc' = "complements"
                /\ idx' = 0)
        /\ (pc = "subsets" /\ idx < Len(Subsets)) => ~InComplements']_vars
\* A complement of a partition of three is tested: the first subset was
\* tested and negative, the last one was skipped as cached.
C38_Witness ==
  /\ pc = "check_complement"
  /\ split_ways = 3
  /\ Len(cur) = 3
  /\ SubsetCandidates[1] \in DOMAIN replayed
  /\ tested[SubsetCandidates[1]] = 1
  /\ Count(tested, SubsetCandidates[3]) = 1
  /\ precompute_cache # {}

\* The DAG simulate() hands to _ddmin: the recorded inputs after
\* mark_invalid_input_sequences.
StartDag == mark_invalid_input_sequences([i \in 1..Len(trace) |-> i])
\* C39: the running total of pruned inputs is exact: in every call of _ddmin
\* total_inputs_pruned is the number of inputs of the DAG the search started
\* with minus the number of inputs of the current DAG, and the pair
\* (dag, total) that is returned satisfies the same equation.
C39_PrunedTotalExact ==
  /\ InDdmin => /\ dag = StartDag
                /\ total_inputs_pruned = Len(StartDag) - Len(cur)
  /\ pc = "ddmin_done" => total_inputs_pruned = Len(StartDag) - Len(dag)
\* The search has returned after two reductions: of three inputs one is left.
C39_Witness ==
  /\ pc = "ddmin_done"
  /\ Len(StartDag) = 3
  /\ Len(dag) = 1
  /\ total_inputs_pruned = 2
  /\ count >= 2

\* C40: after any sequence of calls on the ReplaySyncCallback every entry
\* stored in the pending-state-change multiset has a count of at least 1,
\* also when a state change was garbage-collected without having been
\* reported.
C40_StoredCountsPositive ==
  state_master = "ReplaySyncCallback" =>
    \A pending_state_change \in DOMAIN _pending_state_changes :
      _pending_state_changes[pending_state_change] >= 1
\* A state change was reported and another one, which had not been reported,
\* was garbage-collected: the multiset holds the reported one alone.
C40_Witness ==
  /\ state_master = "ReplaySyncCallback"
  /\ Len(sync_calls) = 2
  /\ sync_calls[1].op = "state_change"
  /\ sync_calls[2].op = "gc_pending_state_change"
  /\ sync_calls[2].arg # sync_calls[1].arg
  /\ DOMAIN _pending_state_changes = {sync_calls[1].arg}
  /\ _pending_state_changes[sync_calls[1].arg] = 1

====
